---- MODULE Spec2Model ----
(***************************************************************************)
(* The PyUnit-derived test execution engine of                             *)
(* Cheetah/Tests/unittest_local_copy.py: TestResult, _TextTestResult,      *)
(* TestCase.__call__, TestSuite and TextTestRunner.run, as a state machine.*)
(* A program builds a Suite tree with addTest, then either hands it to a   *)
(* TextTestRunner or calls it directly with a collector of its own.        *)
(***************************************************************************)
EXTENDS Integers, Sequences, FiniteSets, TLC

\* ---------------------------------------------------------------- bounds
\* most addTest calls the program makes while it builds its Suite tree
MaxAdds == 3
\* most exceptions the test code raises during one traversal
MaxRaises == 2
\* most addTest calls of a program that only builds a tree
MaxBuildAdds == 4
\* most addTest calls of a program that runs a small tree
MaxSmallAdds == 2
\* most invocations of one Runner on the same tree
MaxRuns == 2
\* most calls a program makes on its loader
MaxLoads == 2

\* ---------------------------------------------------------------- objects
None == "None"
NoExc == "NoExc"

\* The Suite objects; S1 is the root handed to the runner.
Suites == {"S1", "S2"}
Root == "S1"
\* The Test Unit objects (TestCase instances).
Cases == {"U1", "U2"}

\* TestSuite.suiteName of each Suite object (None: constructed without one).
SuiteName(s) == IF s = "S2" THEN "FixtureX" ELSE None

\* The fixture class of each unit (TestCase.name, by default its class).
FixtureOf(u) == IF u = "U1" THEN "FixtureX" ELSE "FixtureY"

\* TestCase._testMethodName of each unit: the two fixtures both have a check
\* called testA.
MethodName(u) == "testA"

\* TestCase.id(): "%s.%s" % (self.name, self._testMethodName).
Id(u) == FixtureOf(u) \o "." \o MethodName(u)

\* TestCase.describe(): the stored one-line description.
Describe(u) == IF u = "U1" THEN "first" ELSE ""

\* A Suite may only be nested below a Suite created before it, which keeps
\* the structure a tree (a Suite added to itself would recurse for ever).
Nestable(s, t) == s = "S1" /\ t = "S2"

\* The exception classes the test code raises.
failureException == "AssertionError"
Excs == {"AssertionError", "ValueError", "KeyboardInterrupt"}

\* `except self.failureException, e:` matches instances of that class.
ExceptFailure_never(e) == FALSE
ExceptFailure(e) == e = failureException

\* The bare `except:` clauses of TestCase.__call__: they match every exception.
ExceptAll_onlyErrors(e) == e # "KeyboardInterrupt"
ExceptAll(e) == TRUE

VARIABLES
    tests,      \* TestSuite._tests of every Suite object
    testMap,    \* TestSuite._testMap of every Suite object
    pc,         \* where the driving program is
    driver,     \* who drives the traversal: "none", "direct" or "runner"
    result,     \* the collector (TestResult or _TextTestResult)
    stack,      \* active TestSuite.__call__ frames: [suite, i]
    cur,        \* the unit whose TestCase.__call__ is active, or None
    upc,        \* position inside TestCase.__call__
    ok,         \* the local `ok` of TestCase.__call__
    pending,    \* an exception no handler of TestCase.__call__ matched
    events,     \* calls made by the current (or last) TestCase.__call__
    started,    \* the units startTest was called for, in order
    nStopTest,  \* number of stopTest calls
    raises,     \* exceptions raised so far
    adds,       \* addTest calls so far
    stopCalled, \* stop() was called explicitly
    interrupted,\* a KeyboardInterrupt was raised in this traversal
    target,     \* the object the driver called: the root Suite or one unit
    outs,       \* how setUp, the check and tearDown of the current call ended
    snap,       \* the collector's counters and flag when the current call began
    tally,      \* checks that raised: [failed, errored], counted where asked
    runs,       \* invocations of TextTestRunner.run so far
    prev,       \* what the collector returned by the previous invocation held
    played,     \* how each unit's calls ended in this run, and the run before
    probe,      \* the last call made outside a run, with what it gave back
    loader,     \* the TestLoader's settings and the interpreter's dir() flavour
    nextOid,    \* identity the next constructed Suite or unit instance gets
    calls,      \* the loader calls made so far, each with what it gave back
    prog        \* the TestProgram: its options, its test, where it is

vars == <<tests, testMap, pc, driver, result, stack, cur, upc, ok, pending,
          events, started, nStopTest, raises, adds, stopCalled, interrupted,
          target, outs, snap, tally, runs, prev, played, probe, loader, nextOid,
          calls, prog>>

\* What the TestLoader and the TestProgram keep; running tests leaves it alone.
loadVars == <<loader, nextOid, calls, prog>>

\* History kept for the properties; no step of the program reads it.
hist == <<tally, runs, prev, played, probe>>

Names == {"FixtureX", "TestSuite", "testA", "testB"}


\* ---------------------------------------------------------------- collector
\* The state before any collector exists.
NoResult ==
    [cls |-> None, verbosity |-> 1, testsRun |-> 0,
     failures |-> <<>>, errors |-> <<>>, shouldStop |-> 0,
     out |-> <<>>, err |-> <<>>, log |-> <<>>, timing |-> "unset"]

\* TestResult.__init__ (and _TextTestResult.__init__ for the text subtype).
NewResult(cls, verbosity) ==
    [NoResult EXCEPT !.cls = cls, !.verbosity = verbosity]

IsText(r) == r.cls = "_TextTestResult"
ShowAll(r) == r.verbosity > 1
Dots(r) == r.verbosity = 1

\* StreamWrapper.write / writeln / writeErr / writelnErr.
\* The field log keeps, in the order of the calls, which stream each write
\* went to.
Write(r, txt) == [r EXCEPT !.out = Append(@, txt), !.log = Append(@, "out")]
Writeln(r, line) == Write(r, line \o "\n")
WriteErr(r, txt) == [r EXCEPT !.err = Append(@, txt), !.log = Append(@, "err")]
WritelnErr(r, line) == WriteErr(r, line \o "\n")

\* Mutant: starting a unit clears the stop flag.
TestResult_startTest_clearsStop(r, test) ==
    [r EXCEPT !.testsRun = @ + 1, !.shouldStop = 0]
TestResult_startTest(r, test) == [r EXCEPT !.testsRun = @ + 1]
TestResult_stopTest(r, test) == r
\* Mutant: the base collector asks for a stop when it records an interrupt.
TestResult_addError_stopsOnInterrupt(r, test, e) ==
    [r EXCEPT !.errors = Append(@, <<test, e>>),
              !.shouldStop = IF e = "KeyboardInterrupt" THEN 1 ELSE @]
\* Mutant: addError files its record in the failure sequence.
TestResult_addError_toFailures(r, test, e) == [r EXCEPT !.failures = Append(@, <<test, e>>)]
TestResult_addError(r, test, e) == [r EXCEPT !.errors = Append(@, <<test, e>>)]
\* Mutant: the failure record is appended twice.
TestResult_addFailure_twice(r, test, e) ==
    [r EXCEPT !.failures = Append(Append(@, <<test, e>>), <<test, e>>)]

TestResult_addFailure(r, test, e) == [r EXCEPT !.failures = Append(@, <<test, e>>)]
TestResult_addSuccess(r, test) == r

\* TestResult.stop and _TextTestResult.stop are the same assignment.
stop(r) == [r EXCEPT !.shouldStop = 1]

\* Mutant: the chained comparison lost its `== 0`.
wasSuccessful_sameLength(r) == Len(r.failures) = Len(r.errors)

\* return len(self.failures) == len(self.errors) == 0  (a chained comparison)
wasSuccessful(r) == Len(r.failures) = Len(r.errors) /\ Len(r.errors) = 0

Text_startTest(r, test) ==
    LET r1 == TestResult_startTest(r, test)
    IN  IF ShowAll(r1)
        THEN Write(Write(r1, Id(test) \o " (" \o Describe(test) \o ")"), " ... ")
        ELSE r1

Text_addSuccess(r, test) ==
    LET r1 == TestResult_addSuccess(r, test)
    IN  IF ShowAll(r1) THEN Writeln(r1, "ok")
        ELSE IF Dots(r1) THEN Write(r1, ".")
        ELSE r1

\* `if err[0] is KeyboardInterrupt: self.stop()`
IsInterrupt_never(e) == FALSE
IsInterrupt(e) == e = "KeyboardInterrupt"

Text_addError(r, test, e) ==
    LET r1 == TestResult_addError(r, test, e)
        r2 == IF ShowAll(r1) THEN Writeln(r1, "ERROR")
              ELSE IF Dots(r1) THEN Write(r1, "E")
              ELSE r1
    IN  IF IsInterrupt(e) THEN stop(r2) ELSE r2

\* Mutant: a failure is recorded without a progress indicator.
Text_addFailure_silent(r, test, e) == TestResult_addFailure(r, test, e)

Text_addFailure(r, test, e) ==
    LET r1 == TestResult_addFailure(r, test, e)
    IN  IF ShowAll(r1) THEN Writeln(r1, "FAIL")
        ELSE IF Dots(r1) THEN Write(r1, "F")
        ELSE r1

\* Method dispatch on the collector's class.
startTest(r, test) ==
    IF IsText(r) THEN Text_startTest(r, test) ELSE TestResult_startTest(r, test)
stopTest(r, test) == TestResult_stopTest(r, test)
addError(r, test, e) ==
    IF IsText(r) THEN Text_addError(r, test, e) ELSE TestResult_addError(r, test, e)
addFailure(r, test, e) ==
    IF IsText(r) THEN Text_addFailure(r, test, e) ELSE TestResult_addFailure(r, test, e)
addSuccess(r, test) ==
    IF IsText(r) THEN Text_addSuccess(r, test) ELSE TestResult_addSuccess(r, test)

\* _TextTestResult.beginTests / endTests (the clock itself is not modelled).
beginTests(r) == [r EXCEPT !.timing = "started"]
endTests(r) == [r EXCEPT !.timing = "stopped"]


\* ---------------------------------------------------------------- reporting
\* TestCase.explain(): the stored long-form explanation.
Explain(u) == IF u = "U2" THEN "why" ELSE ""

ErrorSep1 == "**********"
ErrorSep2 == "----------"
Sep2 == "----------"

\* _TextTestResult.writeErrSep1 / writeErrSep2 / writeSep2: all use writeln.
writeErrSep1(r) == Writeln(r, ErrorSep1)
writeErrSep2(r) == Writeln(r, ErrorSep2)
writeSep2(r) == Writeln(r, Sep2)

\* One iteration of the loop of _TextTestResult.printErrorList.
printErrorBlock(r, explain, flavour, rec) ==
    LET test == rec[1]
        r1 == writeErrSep1(r)
        r2 == WritelnErr(r1, flavour \o " " \o Id(test) \o " (" \o Describe(test) \o ")")
        r3 == IF explain /\ Explain(test) # ""
              THEN WritelnErr(WriteErr(writeErrSep2(r2), Explain(test)), "")
              ELSE r2
        r4 == writeErrSep2(r3)
        r5 == WritelnErr(r4, "Traceback: " \o rec[2])
    IN  WritelnErr(r5, "")

RECURSIVE printErrorList(_, _, _, _)
printErrorList(r, explain, flavour, errors) ==
    IF errors = <<>> THEN r
    ELSE printErrorList(printErrorBlock(r, explain, flavour, Head(errors)),
                        explain, flavour, Tail(errors))

\* Mutant: the failure blocks are printed before the error blocks.
printErrors_failuresFirst(r, explain) ==
    LET r1 == IF Dots(r) \/ ShowAll(r) THEN Write(r, "\n") ELSE r
        r2 == printErrorList(r1, explain, "FAIL", r1.failures)
    IN  printErrorList(r2, explain, "ERROR", r2.errors)

printErrors(r, explain) ==
    LET r1 == IF Dots(r) \/ ShowAll(r) THEN Write(r, "\n") ELSE r
        r2 == printErrorList(r1, explain, "ERROR", r1.errors)
    IN  printErrorList(r2, explain, "FAIL", r2.failures)

\* Mutant: the tally always names both counts.
summarize_alwaysBoth(r, explain) ==
    LET r1 == printErrors(r, explain)
        r2 == writeSep2(r1)
        run == r2.testsRun
        r3 == Writeln(r2, "Ran " \o ToString(run) \o " test" \o (IF run = 1 THEN "" ELSE "s"))
        r4 == Write(r3, "\n")
        f1 == WriteErr(r4, "FAILED (")
        f2 == WriteErr(f1, "failures=" \o ToString(Len(r4.failures)))
        f3 == WriteErr(WriteErr(f2, ", "), "errors=" \o ToString(Len(r4.errors)))
    IN  IF ~wasSuccessful(r4) THEN WritelnErr(f3, ")") ELSE WritelnErr(r4, "OK")

\* explain is the collector's _explain, which only printErrorList reads.
summarize(r, explain) ==
    LET r1 == printErrors(r, explain)
        r2 == writeSep2(r1)
        run == r2.testsRun
        r3 == Writeln(r2, "Ran " \o ToString(run) \o " test" \o (IF run = 1 THEN "" ELSE "s"))
        r4 == Write(r3, "\n")
        failed == Len(r4.failures)
        errored == Len(r4.errors)
        f1 == WriteErr(r4, "FAILED (")
        f2 == IF failed # 0 THEN WriteErr(f1, "failures=" \o ToString(failed)) ELSE f1
        f3 == IF errored # 0
              THEN WriteErr(IF failed # 0 THEN WriteErr(f2, ", ") ELSE f2,
                            "errors=" \o ToString(errored))
              ELSE f2
    IN  IF ~wasSuccessful(r4) THEN WritelnErr(f3, ")") ELSE WritelnErr(r4, "OK")

\* ---------------------------------------------------------------- suites
\* TestCase.countTestCases (1) and TestSuite.countTestCases (the sum over
\* the children), for the object t.
\* Mutant: a nested Suite is counted as one case instead of being asked.
\* Mutant: a unit instance reachable twice is counted once.
countTestCases_distinct(t) ==
    IF t \in Cases THEN 1
    ELSE Cardinality({u \in Cases :
             \E i \in DOMAIN tests[t] :
                 \/ tests[t][i] = u
                 \/ /\ tests[t][i] \in Suites
                    /\ \E j \in DOMAIN tests[tests[t][i]] : tests[tests[t][i]][j] = u})

countTestCases_directOnly(t) == IF t \in Cases THEN 1 ELSE Len(tests[t])

RECURSIVE countTestCases(_)
countTestCases(t) ==
    LET RECURSIVE Sum(_)
        Sum(seq) == IF seq = <<>> THEN 0
                    ELSE countTestCases(Head(seq)) + Sum(Tail(seq))
    IN  IF t \in Cases THEN 1 ELSE Sum(tests[t])

\* The name TestSuite.addTest files a child under.
DerivedName(t) ==
    IF t \in Suites /\ SuiteName(t) # None THEN SuiteName(t)
    ELSE IF t \in Cases THEN MethodName(t)
    ELSE "TestSuite"

NotRun == "NotRun"
\* What a name can stand for: a module, a class, a method got from a class
\* or an instance, a TestSuite instance, a TestCase instance, a function, or
\* anything else. `oid` tells two instances apart.
Obj(kind, oid, name, cls, method, children) ==
    [kind |-> kind, oid |-> oid, name |-> name, cls |-> cls, method |-> method,
     tests |-> children]

NoObj == Obj("none", 0, None, None, None, <<>>)
ModuleObj(m) == Obj("module", 0, m, None, None, <<>>)
ClassObj(c) == Obj("class", 0, c, None, None, <<>>)
MethodObj(c, m) == Obj("method", 0, None, c, m, <<>>)
FunctionObj(f) == Obj("function", 0, f, None, None, <<>>)
OtherObj(x) == Obj("other", 0, x, None, None, <<>>)

\* TestCase.__init__(methodName) of class c: the instance, its _testMethodName.
UnitObj(oid, c, m) == Obj("unit", oid, None, c, m, <<>>)

\* TestSuite.__init__(tests, suiteName): the instance, its suiteName, _tests.
SuiteObj(oid, suiteName, children) ==
    Obj("suite", oid, suiteName, "TestSuite", None, children)

\* TestCase.id(): "%s.%s" % (self.__class__, self._testMethodName)
UnitId(u) == u.cls \o "." \o u.method

\* countTestCases() of a TestCase or TestSuite instance.
RECURSIVE CountCases(_)
CountCases(o) ==
    IF o.kind = "unit" THEN 1
    ELSE IF o.tests = <<>> THEN 0
    ELSE CountCases(Head(o.tests)) + CountCases([o EXCEPT !.tests = Tail(@)])

\* The name addTest files a child under in _testMap.
ChildName(o) ==
    IF o.kind = "suite" /\ o.name # None THEN o.name
    ELSE IF o.kind = "unit" THEN o.method
    ELSE "TestSuite"

\* TestSuite.getTestForName(name) on an instance: the child filed last under
\* the name, or a KeyError.
SuiteLookup(o, part) ==
    LET hits == {i \in DOMAIN o.tests : ChildName(o.tests[i]) = part}
    IN  IF hits = {} THEN [exc |-> "KeyError", val |-> NoObj]
        ELSE [exc |-> NoExc,
              val |-> o.tests[CHOOSE i \in hits : \A j \in hits : j <= i]]

\* Instances the sample modules hold, built when the modules were imported.
theUnit == UnitObj(1, "FixtureY", "testA")
theSuite ==
    SuiteObj(4, None, <<SuiteObj(3, "FixtureX", <<UnitObj(2, "FixtureX", "testA")>>),
                        UnitObj(5, "FixtureY", "testA")>>)
unitY == UnitObj(6, "FixtureY", "testA")

\* The identity the first instance a loader call builds gets.
FirstOid == unitY.oid + 1

\* class TestLoader: testMethodPrefix = 'test', sortTestMethodsUsing = cmp.
\* `dir` says how the interpreter's dir(aClass) behaves: it lists the names
\* the class defines itself ("own") or those of its bases as well ("all").
DefaultLoader == [prefix |-> "test", sortUsing |-> "cmp", dir |-> "all"]


\* No TestProgram has been constructed.
NoProgram == [phase |-> "none", verbosity |-> 1, explain |-> FALSE, test |-> NoObj,
              exc |-> NoExc, status |-> -1, cleaned |-> FALSE,
              opts |-> <<>>, args |-> <<>>, defaultTest |-> None]

NoPrev == [testsRun |-> 0, failures |-> 0, errors |-> 0, shouldStop |-> 0]
NoOuts == [setUp |-> NotRun, test |-> NotRun, tearDown |-> NotRun]
NoPlayed == [now |-> [u \in Cases |-> <<>>], before |-> <<>>]
NoProbe == [op |-> "none"]

\* Nothing has been added to a Suite and nothing has run.
InitRun ==
    /\ tests = [s \in Suites |-> <<>>]
    /\ testMap = [s \in Suites |-> [n \in Names |-> None]]
    /\ pc = "idle"
    /\ driver = "none"
    /\ result = NoResult
    /\ stack = <<>>
    /\ cur = None
    /\ upc = "none"
    /\ ok = 0
    /\ pending = NoExc
    /\ events = <<>>
    /\ started = <<>>
    /\ nStopTest = 0
    /\ raises = 0
    /\ adds = 0
    /\ stopCalled = FALSE
    /\ interrupted = FALSE
    /\ target = None
    /\ outs = NoOuts
    /\ snap = [testsRun |-> 0, failures |-> 0, errors |-> 0, shouldStop |-> 0]
    /\ tally = [failed |-> 0, errored |-> 0]
    /\ runs = 0
    /\ prev = NoPrev
    /\ played = NoPlayed
    /\ probe = NoProbe

Init ==
    /\ InitRun
    /\ loader = DefaultLoader
    /\ nextOid = FirstOid
    /\ calls = <<>>
    /\ prog = NoProgram

runVars == <<pc, driver, result, stack, cur, upc, ok, pending, events, started,
             nStopTest, raises, stopCalled, interrupted, target, outs, snap,
             tally, runs, prev, played, probe>>

\* TestSuite.getTestForName(name) on Suite s: self._testMap[name].
\* Mutant: a name that is no key gives None, as dict.get would.
getTestForName_orNone(s, name) == testMap[s][name]

getTestForName(s, name) ==
    IF testMap[s][name] = None THEN "KeyError" ELSE testMap[s][name]

\* Mutant: a name that is already filed keeps its first child.
AddTest_firstWins(s, t) ==
    /\ pc = "idle"
    /\ t \in Cases \/ Nestable(s, t)
    /\ tests' = [tests EXCEPT ![s] = Append(@, t)]
    /\ testMap' = IF testMap[s][DerivedName(t)] = None
                  THEN [testMap EXCEPT ![s][DerivedName(t)] = t]
                  ELSE testMap
    /\ adds' = adds + 1
    /\ UNCHANGED <<runVars, loadVars>>

\* TestSuite.addTest(test) on Suite s, while the program builds its tree.
AddTest(s, t) ==
    /\ pc = "idle"
    /\ t \in Cases \/ Nestable(s, t)
    /\ tests' = [tests EXCEPT ![s] = Append(@, t)]
    /\ testMap' = [testMap EXCEPT ![s][DerivedName(t)] = t]
    /\ adds' = adds + 1
    /\ UNCHANGED <<runVars, loadVars>>


\* ---------------------------------------------------------------- unit run
\* The steps of TestCase.__call__ between startTest and the finally clause.
\* Each yields the collector after the step, the calls made, where control
\* goes next and the exception (if any) that no handler matched.

\* Mutant: stopTest follows the block instead of sitting in a finally clause,
\* so the early return leaves without it.
RunSetUp_skipsStopTest(r, test, e) ==
    IF e = NoExc
    THEN [result |-> r, calls |-> <<"setUp">>, next |-> "test", pending |-> NoExc]
    ELSE [result |-> addError(r, test, e), calls |-> <<"setUp", "addError">>,
          next |-> "none", pending |-> NoExc]

\* Mutant: the `return` after addError is missing.
RunSetUp_noReturn(r, test, e) ==
    IF e = NoExc
    THEN [result |-> r, calls |-> <<"setUp">>, next |-> "test", pending |-> NoExc]
    ELSE [result |-> addError(r, test, e), calls |-> <<"setUp", "addError">>,
          next |-> "test", pending |-> NoExc]

\* try: self.setUp()  except: result.addError(...); return
RunSetUp(r, test, e) ==
    IF e = NoExc
    THEN [result |-> r, calls |-> <<"setUp">>, next |-> "test", pending |-> NoExc]
    ELSE IF ExceptAll(e)
    THEN [result |-> addError(r, test, e), calls |-> <<"setUp", "addError">>,
          next |-> "finally", pending |-> NoExc]
    ELSE [result |-> r, calls |-> <<"setUp">>, next |-> "finally", pending |-> e]

\* Mutant: a failing check is reported to addFailure and to addError.
RunTest_doubleRecord(r, test, e) ==
    IF e = NoExc
    THEN [result |-> r, calls |-> <<"test">>, ok |-> 1,
          next |-> "tearDown", pending |-> NoExc]
    ELSE IF e = failureException
    THEN [result |-> addError(addFailure(r, test, e), test, e),
          calls |-> <<"test", "addFailure", "addError">>,
          ok |-> 0, next |-> "tearDown", pending |-> NoExc]
    ELSE [result |-> addError(r, test, e), calls |-> <<"test", "addError">>,
          ok |-> 0, next |-> "tearDown", pending |-> NoExc]

\* Mutant: tearDown sits inside the try block, so a raising check skips it.
RunTest_skipTearDown(r, test, e) ==
    IF e = NoExc
    THEN [result |-> r, calls |-> <<"test">>, ok |-> 1,
          next |-> "tearDown", pending |-> NoExc]
    ELSE IF e = failureException
    THEN [result |-> addFailure(r, test, e), calls |-> <<"test", "addFailure">>,
          ok |-> 0, next |-> "finally", pending |-> NoExc]
    ELSE [result |-> addError(r, test, e), calls |-> <<"test", "addError">>,
          ok |-> 0, next |-> "finally", pending |-> NoExc]

\* ok = 0; try: self._testMethod(); ok = 1
\* except self.failureException: addFailure  except: addError
RunTest(r, test, e) ==
    IF e = NoExc
    THEN [result |-> r, calls |-> <<"test">>, ok |-> 1,
          next |-> "tearDown", pending |-> NoExc]
    ELSE IF ExceptFailure(e)
    THEN [result |-> addFailure(r, test, e), calls |-> <<"test", "addFailure">>,
          ok |-> 0, next |-> "tearDown", pending |-> NoExc]
    ELSE IF ExceptAll(e)
    THEN [result |-> addError(r, test, e), calls |-> <<"test", "addError">>,
          ok |-> 0, next |-> "tearDown", pending |-> NoExc]
    ELSE [result |-> r, calls |-> <<"test">>, ok |-> 0,
          next |-> "finally", pending |-> e]

\* Mutant: the handler of tearDown forgets `ok = 0`.
RunTearDown_keepsOk(r, test, e, okNow) ==
    LET r1 == IF e = NoExc THEN r ELSE addError(r, test, e)
        c1 == IF e = NoExc THEN <<"tearDown">> ELSE <<"tearDown", "addError">>
    IN  IF okNow = 1
        THEN [result |-> addSuccess(r1, test), calls |-> Append(c1, "addSuccess"),
              ok |-> okNow, next |-> "finally", pending |-> NoExc]
        ELSE [result |-> r1, calls |-> c1, ok |-> okNow,
              next |-> "finally", pending |-> NoExc]

\* try: self.tearDown()  except: addError; ok = 0
\* if ok: result.addSuccess(self)
RunTearDown(r, test, e, okNow) ==
    IF e # NoExc /\ ~ExceptAll(e)
    THEN [result |-> r, calls |-> <<"tearDown">>, ok |-> okNow,
          next |-> "finally", pending |-> e]
    ELSE LET r1 == IF e = NoExc THEN r ELSE addError(r, test, e)
             c1 == IF e = NoExc THEN <<"tearDown">> ELSE <<"tearDown", "addError">>
             ok1 == IF e = NoExc THEN okNow ELSE 0
         IN  IF ok1 = 1
             THEN [result |-> addSuccess(r1, test), calls |-> Append(c1, "addSuccess"),
                   ok |-> ok1, next |-> "finally", pending |-> NoExc]
             ELSE [result |-> r1, calls |-> c1, ok |-> ok1,
                   next |-> "finally", pending |-> NoExc]

\* The test code raises e (or returns normally when e = NoExc).
CanRaise(e) == e = NoExc \/ raises < MaxRaises
Raise(e) ==
    /\ raises' = IF e = NoExc THEN raises ELSE raises + 1
    /\ interrupted' = (interrupted \/ e = "KeyboardInterrupt")

\* TestCase.__call__ entry: result.startTest(self).
StartTest ==
    /\ pc = "running" /\ upc = "call"
    /\ result' = startTest(result, cur)
    /\ events' = <<"startTest">>
    /\ started' = Append(started, cur)
    /\ upc' = "setUp"
    /\ UNCHANGED <<tests, testMap, pc, driver, stack, cur, ok, pending,
                   nStopTest, raises, adds, stopCalled, interrupted>>
    /\ outs' = NoOuts
    /\ snap' = [testsRun |-> result.testsRun, failures |-> Len(result.failures),
                errors |-> Len(result.errors), shouldStop |-> result.shouldStop]
    /\ UNCHANGED target
    /\ UNCHANGED <<hist, loadVars>>

SetUp(e) ==
    /\ pc = "running" /\ upc = "setUp"
    /\ CanRaise(e)
    /\ LET x == RunSetUp(result, cur, e)
       IN  /\ result' = x.result
           /\ events' = events \o x.calls
           /\ upc' = x.next
           /\ pending' = x.pending
    /\ ok' = 0
    /\ Raise(e)
    /\ UNCHANGED <<tests, testMap, pc, driver, stack, cur, started, nStopTest, adds, stopCalled>>
    /\ outs' = [outs EXCEPT !.setUp = e]
    /\ UNCHANGED <<target, snap>>
    /\ UNCHANGED <<hist, loadVars>>

\* The check of the unit in progress ends with e.
Check(e) ==
    /\ pc = "running" /\ upc = "test"
    /\ CanRaise(e)
    /\ LET x == RunTest(result, cur, e)
       IN  /\ result' = x.result
           /\ events' = events \o x.calls
           /\ upc' = x.next
           /\ pending' = x.pending
           /\ ok' = x.ok
    /\ Raise(e)
    /\ UNCHANGED <<tests, testMap, pc, driver, stack, cur, started, nStopTest, adds, stopCalled>>
    /\ outs' = [outs EXCEPT !.test = e]
    /\ UNCHANGED <<target, snap>>

Test(e) ==
    /\ Check(e)
    /\ UNCHANGED <<hist, loadVars>>

TearDown(e) ==
    /\ pc = "running" /\ upc = "tearDown"
    /\ CanRaise(e)
    /\ LET x == RunTearDown(result, cur, e, ok)
       IN  /\ result' = x.result
           /\ events' = events \o x.calls
           /\ upc' = x.next
           /\ pending' = x.pending
           /\ ok' = x.ok
    /\ Raise(e)
    /\ UNCHANGED <<tests, testMap, pc, driver, stack, cur, started, nStopTest, adds, stopCalled>>
    /\ outs' = [outs EXCEPT !.tearDown = e]
    /\ UNCHANGED <<target, snap>>
    /\ UNCHANGED <<hist, loadVars>>

\* finally: result.stopTest(self); then the call returns to its caller, or
\* the unmatched exception leaves it (no caller of a unit has a handler).
StopTestStep ==
    /\ pc = "running" /\ upc = "finally"
    /\ result' = stopTest(result, cur)
    /\ events' = Append(events, "stopTest")
    /\ nStopTest' = nStopTest + 1
    /\ upc' = "none"
    /\ cur' = None
    /\ IF pending # NoExc
       THEN pc' = "raised" /\ stack' = <<>>
       ELSE /\ pc' = IF stack = <<>> THEN "returned" ELSE pc
            /\ stack' = stack
    /\ UNCHANGED <<tests, testMap, driver, ok, pending, started, raises, adds,
                   stopCalled, interrupted>>
    /\ UNCHANGED <<target, outs, snap>>
    /\ UNCHANGED <<tally, runs, prev, probe, loadVars>>

StopTest ==
    /\ StopTestStep
    /\ UNCHANGED played

\* result.stop(), called by the test code of the unit in progress or by the
\* caller that owns the collector before it starts the traversal.
\* A stop() on a collector whose flag is already set changes nothing.
Stop ==
    /\ \/ pc = "ready"
       \/ pc = "running" /\ upc \in {"setUp", "test", "tearDown"}
    /\ result.shouldStop = 0
    /\ result' = stop(result)
    /\ stopCalled' = TRUE
    /\ UNCHANGED <<tests, testMap, pc, driver, stack, cur, upc, ok, pending,
                   events, started, nStopTest, raises, adds, interrupted>>
    /\ UNCHANGED <<target, outs, snap>>
    /\ UNCHANGED <<hist, loadVars>>

\* ---------------------------------------------------------------- traversal
Top == stack[Len(stack)]
Pop == SubSeq(stack, 1, Len(stack) - 1)
AtLoopHead == pc = "running" /\ upc = "none" /\ stack # <<>>
HasNext == Top.i <= Len(tests[Top.suite])
\* Mutant: the loop walks the children from the last one to the first.
NextTest_reversed == tests[Top.suite][Len(tests[Top.suite]) + 1 - Top.i]
NextTest == tests[Top.suite][Top.i]

\* Mutant: the traversal also gives up after the first failure or error.
ShouldBreak_failFast(r) == r.shouldStop # 0 \/ ~wasSuccessful(r)
\* Mutant: the traversal never looks at the flag.
ShouldBreak_never(r) == FALSE
\* Mutant: only a nested Suite looks at the flag.
ShouldBreak_nestedOnly(r) == r.shouldStop # 0 /\ Len(stack) > 1

\* `if result.shouldStop: break`
ShouldBreak(r) == r.shouldStop # 0

\* Mutant: the outermost traversal does not hand control back to its caller.
SuiteLeave_noReturn ==
    /\ stack' = Pop
    /\ pc' = pc
    /\ UNCHANGED <<tests, testMap, driver, result, cur, upc, ok, pending, events,
                   started, nStopTest, raises, adds, stopCalled, interrupted>>
    /\ UNCHANGED <<target, outs, snap>>
    /\ UNCHANGED <<hist, loadVars>>

SuiteLeave ==
    /\ stack' = Pop
    /\ pc' = IF Len(stack) = 1 THEN "returned" ELSE pc
    /\ UNCHANGED <<tests, testMap, driver, result, cur, upc, ok, pending, events,
                   started, nStopTest, raises, adds, stopCalled, interrupted>>
    /\ UNCHANGED <<target, outs, snap>>
    /\ UNCHANGED <<hist, loadVars>>

\* TestSuite.__call__: the loop is exhausted; return result.
SuiteReturn ==
    /\ AtLoopHead /\ ~HasNext
    /\ SuiteLeave

\* TestSuite.__call__: `if result.shouldStop: break`, then return result.
SuiteBreak ==
    /\ AtLoopHead /\ HasNext /\ ShouldBreak(result)
    /\ SuiteLeave

\* TestSuite.__call__: test(result) where test is a nested Suite.
SuiteDescend ==
    /\ AtLoopHead /\ HasNext /\ ~ShouldBreak(result)
    /\ NextTest \in Suites
    /\ stack' = Pop \o <<[Top EXCEPT !.i = @ + 1], [suite |-> NextTest, i |-> 1]>>
    /\ UNCHANGED <<tests, testMap, pc, driver, result, cur, upc, ok, pending,
                   events, started, nStopTest, raises, adds, stopCalled, interrupted>>
    /\ UNCHANGED <<target, outs, snap>>
    /\ UNCHANGED <<hist, loadVars>>

\* TestSuite.__call__: test(result) where test is a unit.
SuiteCallCase ==
    /\ AtLoopHead /\ HasNext /\ ~ShouldBreak(result)
    /\ NextTest \in Cases
    /\ stack' = Pop \o <<[Top EXCEPT !.i = @ + 1]>>
    /\ cur' = NextTest
    /\ upc' = "call"
    /\ UNCHANGED <<tests, testMap, pc, driver, result, ok, pending, events,
                   started, nStopTest, raises, adds, stopCalled, interrupted>>
    /\ UNCHANGED <<target, outs, snap>>
    /\ UNCHANGED <<hist, loadVars>>

\* ---------------------------------------------------------------- drivers
Verbosities == {0, 1, 2}
\* TextTestRunner.__init__(..., verbosity=1, ...)
DefaultVerbosity == 1

\* A caller constructs a collector of its own: TestResult(). (The text
\* subtype is private to the runner, which builds it in _makeResult.)
MakeResult ==
    /\ pc = "idle"
    /\ result' = NewResult("TestResult", 1)
    /\ driver' = "direct"
    /\ pc' = "ready"
    /\ UNCHANGED <<tests, testMap, stack, cur, upc, ok, pending, events, started,
                   nStopTest, raises, adds, stopCalled, interrupted>>
    /\ UNCHANGED <<target, outs, snap>>
    /\ UNCHANGED <<hist, loadVars>>

\* TestSuite.run(result) called on the root Suite by the caller.
RunSuite ==
    /\ pc = "ready"
    /\ stack' = <<[suite |-> Root, i |-> 1]>>
    /\ pc' = "running"
    /\ UNCHANGED <<tests, testMap, driver, result, cur, upc, ok, pending, events,
                   started, nStopTest, raises, adds, stopCalled, interrupted>>
    /\ target' = Root
    /\ UNCHANGED <<outs, snap>>
    /\ UNCHANGED <<hist, loadVars>>

\* TestCase.run(result) called on one unit by the caller.
RunCase(u) ==
    /\ pc = "ready"
    /\ cur' = u
    /\ upc' = "call"
    /\ pc' = "running"
    /\ UNCHANGED <<tests, testMap, driver, result, stack, ok, pending, events,
                   started, nStopTest, raises, adds, stopCalled, interrupted>>
    /\ target' = u
    /\ UNCHANGED <<outs, snap>>
    /\ UNCHANGED <<hist, loadVars>>

\* TextTestRunner.run(test): _makeResult(), beginTests(), test(result).
RunnerRun(v) ==
    /\ pc = "idle"
    /\ result' = beginTests(NewResult("_TextTestResult", v))
    /\ driver' = "runner"
    /\ stack' = <<[suite |-> Root, i |-> 1]>>
    /\ pc' = "running"
    /\ UNCHANGED <<tests, testMap, cur, upc, ok, pending, events, started,
                   nStopTest, raises, adds, stopCalled, interrupted>>
    /\ target' = Root
    /\ UNCHANGED <<outs, snap>>
    /\ runs' = runs + 1
    /\ UNCHANGED <<tally, prev, played, probe, loadVars>>

\* Mutant: endTests() does not wait for test(result) to return.
EndTests_early ==
    /\ pc \in {"running", "returned"} /\ upc = "none" /\ driver = "runner"
    /\ result' = endTests(result)
    /\ pc' = "summarizing"
    /\ UNCHANGED <<tests, testMap, driver, stack, cur, upc, ok, pending, events,
                   started, nStopTest, raises, adds, stopCalled, interrupted>>
    /\ UNCHANGED <<target, outs, snap>>
    /\ UNCHANGED <<hist, loadVars>>

\* TextTestRunner.run: result.endTests() once the traversal returned.
EndTests ==
    /\ pc = "returned" /\ driver = "runner"
    /\ result' = endTests(result)
    /\ pc' = "summarizing"
    /\ UNCHANGED <<tests, testMap, driver, stack, cur, upc, ok, pending, events,
                   started, nStopTest, raises, adds, stopCalled, interrupted>>
    /\ UNCHANGED <<target, outs, snap>>
    /\ UNCHANGED <<hist, loadVars>>

\* TextTestRunner.run: result.summarize(); return result.
Summarize(explain) ==
    /\ pc = "summarizing"
    /\ result' = summarize(result, explain)
    /\ pc' = "done"
    /\ UNCHANGED <<tests, testMap, driver, stack, cur, upc, ok, pending, events,
                   started, nStopTest, raises, adds, stopCalled, interrupted>>
    /\ UNCHANGED <<target, outs, snap>>
    /\ UNCHANGED <<hist, loadVars>>

Next ==
    \/ \E s \in Suites, t \in Suites \cup Cases : adds < MaxAdds /\ AddTest(s, t)
    \/ MakeResult
    \/ RunSuite
    \/ \E u \in Cases : RunCase(u)
    \/ \E v \in Verbosities : RunnerRun(v)
    \/ Stop
    \/ SuiteReturn
    \/ SuiteBreak
    \/ SuiteDescend
    \/ SuiteCallCase
    \/ StartTest
    \/ \E e \in Excs \cup {NoExc} : SetUp(e)
    \/ \E e \in Excs \cup {NoExc} : Test(e)
    \/ \E e \in Excs \cup {NoExc} : TearDown(e)
    \/ StopTest
    \/ EndTests
    \/ \E explain \in BOOLEAN : Summarize(explain)

Spec == Init /\ [][Next]_vars

\* ------------------------------------------------------------ a small tree
\* The same program with a tree of at most MaxSmallAdds items: what one unit
\* call does and what the collector holds do not depend on the tree around.
NextSmall ==
    \/ \E s \in Suites, t \in Suites \cup Cases : adds < MaxSmallAdds /\ AddTest(s, t)
    \/ MakeResult
    \/ RunSuite
    \/ \E u \in Cases : RunCase(u)
    \/ \E v \in Verbosities : RunnerRun(v)
    \/ Stop
    \/ SuiteReturn
    \/ SuiteBreak
    \/ SuiteDescend
    \/ SuiteCallCase
    \/ StartTest
    \/ \E e \in Excs \cup {NoExc} : SetUp(e)
    \/ \E e \in Excs \cup {NoExc} : Test(e)
    \/ \E e \in Excs \cup {NoExc} : TearDown(e)
    \/ StopTest
    \/ EndTests
    \/ \E explain \in BOOLEAN : Summarize(explain)

SpecSmall == Init /\ [][NextSmall]_vars

\* ------------------------------------------------------- building the tree
\* The program only builds its Suite tree, with at most MaxBuildAdds calls of
\* addTest.
NextBuild ==
    \E s \in Suites, t \in Suites \cup Cases : adds < MaxBuildAdds /\ AddTest(s, t)

SpecBuild == Init /\ [][NextBuild]_vars

\* ------------------------------------------------------- a Runner invocation
\* The program builds a small tree (at most MaxSmallAdds items) and hands it to
\* a Runner constructed with its defaults (verbosity=1). Python executes
\* TextTestRunner.run sequentially, so once it is entered its next step is
\* eventually taken, every phase of a unit being assumed to return or raise;
\* whether the code of a unit calls stop() is left open.
RunnerStep ==
    \/ SuiteReturn
    \/ SuiteBreak
    \/ SuiteDescend
    \/ SuiteCallCase
    \/ StartTest
    \/ \E e \in Excs \cup {NoExc} : SetUp(e)
    \/ \E e \in Excs \cup {NoExc} : Test(e)
    \/ \E e \in Excs \cup {NoExc} : TearDown(e)
    \/ StopTest
    \/ EndTests
    \/ \E explain \in BOOLEAN : Summarize(explain)

NextRunner ==
    \/ \E s \in Suites, t \in Suites \cup Cases : adds < MaxSmallAdds /\ AddTest(s, t)
    \/ RunnerRun(DefaultVerbosity)
    \/ Stop
    \/ SuiteReturn
    \/ SuiteBreak
    \/ SuiteDescend
    \/ SuiteCallCase
    \/ StartTest
    \/ \E e \in Excs \cup {NoExc} : SetUp(e)
    \/ \E e \in Excs \cup {NoExc} : Test(e)
    \/ \E e \in Excs \cup {NoExc} : TearDown(e)
    \/ StopTest
    \/ EndTests
    \/ \E explain \in BOOLEAN : Summarize(explain)

SpecRunner == Init /\ [][NextRunner]_vars /\ WF_vars(RunnerStep)

\* ------------------------------------------------------ the Runner run again
\* The program has built the tree S1 = [U1, S2], S2 = [U2] and calls
\* TextTestRunner.run on it up to MaxRuns times, keeping what each call
\* returned.
InitRerun ==
    /\ tests = [s \in Suites |-> IF s = Root THEN <<"U1", "S2">> ELSE <<"U2">>]
    /\ testMap = [s \in Suites |->
                     [n \in Names |->
                        IF s = Root /\ n = "testA" THEN "U1"
                        ELSE IF s = Root /\ n = "FixtureX" THEN "S2"
                        ELSE IF s = "S2" /\ n = "testA" THEN "U2"
                        ELSE None]]
    /\ pc = "idle"
    /\ driver = "none"
    /\ result = NoResult
    /\ stack = <<>>
    /\ cur = None
    /\ upc = "none"
    /\ ok = 0
    /\ pending = NoExc
    /\ events = <<>>
    /\ started = <<>>
    /\ nStopTest = 0
    /\ raises = 0
    /\ adds = 3
    /\ stopCalled = FALSE
    /\ interrupted = FALSE
    /\ target = None
    /\ outs = NoOuts
    /\ snap = [testsRun |-> 0, failures |-> 0, errors |-> 0, shouldStop |-> 0]
    /\ tally = [failed |-> 0, errored |-> 0]
    /\ runs = 0
    /\ prev = NoPrev
    /\ played = NoPlayed
    /\ probe = NoProbe
    /\ loader = DefaultLoader
    /\ nextOid = FirstOid
    /\ calls = <<>>
    /\ prog = NoProgram

\* Mutant: the Runner keeps one collector and passes it to every run.
RunnerRerun_sameCollector(v) ==
    /\ pc = "done" /\ runs < MaxRuns
    /\ result' = beginTests(result)
    /\ prev' = [testsRun |-> result.testsRun, failures |-> Len(result.failures),
                errors |-> Len(result.errors), shouldStop |-> result.shouldStop]
    /\ runs' = runs + 1
    /\ stack' = <<[suite |-> Root, i |-> 1]>>
    /\ pc' = "running"
    /\ events' = <<>> /\ started' = <<>> /\ nStopTest' = 0 /\ raises' = 0
    /\ stopCalled' = FALSE /\ interrupted' = FALSE
    /\ outs' = NoOuts
    /\ snap' = [testsRun |-> 0, failures |-> 0, errors |-> 0, shouldStop |-> 0]
    /\ UNCHANGED <<tests, testMap, driver, cur, upc, ok, pending, adds, target, tally,
                   played, probe, loadVars>>

\* TextTestRunner.run(test) called again after an earlier call returned:
\* _makeResult(), beginTests(), test(result). What is recorded about the
\* run starts afresh with it.
RunnerRerun(v) ==
    /\ pc = "done" /\ runs < MaxRuns
    /\ result' = beginTests(NewResult("_TextTestResult", v))
    /\ prev' = [testsRun |-> result.testsRun, failures |-> Len(result.failures),
                errors |-> Len(result.errors), shouldStop |-> result.shouldStop]
    /\ runs' = runs + 1
    /\ stack' = <<[suite |-> Root, i |-> 1]>>
    /\ pc' = "running"
    /\ events' = <<>> /\ started' = <<>> /\ nStopTest' = 0 /\ raises' = 0
    /\ stopCalled' = FALSE /\ interrupted' = FALSE
    /\ outs' = NoOuts
    /\ snap' = [testsRun |-> 0, failures |-> 0, errors |-> 0, shouldStop |-> 0]
    /\ UNCHANGED <<tests, testMap, driver, cur, upc, ok, pending, adds, target, tally,
                   played, probe, loadVars>>

NextRerun ==
    \/ RunnerRun(DefaultVerbosity)
    \/ RunnerRerun(DefaultVerbosity)
    \/ Stop
    \/ SuiteReturn
    \/ SuiteBreak
    \/ SuiteDescend
    \/ SuiteCallCase
    \/ StartTest
    \/ \E e \in Excs \cup {NoExc} : SetUp(e)
    \/ \E e \in Excs \cup {NoExc} : Test(e)
    \/ \E e \in Excs \cup {NoExc} : TearDown(e)
    \/ StopTest
    \/ EndTests
    \/ \E explain \in BOOLEAN : Summarize(explain)

SpecRerun == InitRerun /\ [][NextRerun]_vars

\* ------------------------------------------------- units with sound fixtures
\* The same program run on units whose setUp and tearDown always return and
\* whose code never calls stop(); only the checks choose how they end, and
\* each check that raises is counted by the class of what it raised.
TalliedTest(e) ==
    /\ Check(e)
    /\ tally' = [failed |-> tally.failed + (IF e = failureException THEN 1 ELSE 0),
                 errored |-> tally.errored +
                             (IF e \notin {NoExc, failureException} THEN 1 ELSE 0)]
    /\ UNCHANGED <<runs, prev, played, probe, loadVars>>

NextSound ==
    \/ \E s \in Suites, t \in Suites \cup Cases : adds < MaxAdds /\ AddTest(s, t)
    \/ MakeResult
    \/ RunSuite
    \/ \E u \in Cases : RunCase(u)
    \/ \E v \in Verbosities : RunnerRun(v)
    \/ SuiteReturn
    \/ SuiteBreak
    \/ SuiteDescend
    \/ SuiteCallCase
    \/ StartTest
    \/ SetUp(NoExc)
    \/ \E e \in Excs \cup {NoExc} : TalliedTest(e)
    \/ TearDown(NoExc)
    \/ StopTest
    \/ EndTests
    \/ \E explain \in BOOLEAN : Summarize(explain)

SpecSound == Init /\ [][NextSound]_vars


\* ================================================================ properties
Count(seq, x) == Cardinality({i \in DOMAIN seq : seq[i] = x})
Occurs(seq, x) == \E i \in DOMAIN seq : seq[i] = x
Last(seq) == seq[Len(seq)]

\* The current TestCase.__call__ has run its finally clause.
RunComplete == events # <<>> /\ Last(events) = "stopTest"
SetUpRaised == outs.setUp \notin {NotRun, NoExc}
CheckRaised == outs.test \notin {NotRun, NoExc}
TearDownRaised == outs.tearDown \notin {NotRun, NoExc}

\* The records the current call has appended so far.
NewFailures == SubSeq(result.failures, snap.failures + 1, Len(result.failures))
NewErrors == SubSeq(result.errors, snap.errors + 1, Len(result.errors))
Unit == Last(started)

Rank(x) ==
    CASE x = "startTest" -> 1 [] x = "setUp" -> 2 [] x = "test" -> 3
      [] x = "tearDown" -> 4 [] x = "stopTest" -> 5 [] OTHER -> 0

LifecycleOrdered(ev) ==
    \A i \in DOMAIN ev :
        Rank(ev[i]) > 0 =>
            \A j \in (i + 1)..Len(ev) : Rank(ev[j]) > 0 => Rank(ev[i]) < Rank(ev[j])

\* C1: in every unit run the calls startTest, setUp, check, tearDown, stopTest
\* occur in that order, each at most once; the check is invoked only after
\* setUp returned normally; tearDown is invoked exactly once when setUp
\* returned normally (whatever the check did) and never when setUp raised.
C1_Lifecycle ==
    /\ LifecycleOrdered(events)
    /\ events # <<>> => events[1] = "startTest"
    /\ outs.setUp # NotRun => Count(events, "setUp") = 1
    /\ Occurs(events, "test") => outs.setUp = NoExc
    /\ Occurs(events, "tearDown") => outs.setUp = NoExc /\ Occurs(events, "test")
    /\ RunComplete =>
         /\ Count(events, "setUp") = 1
         /\ IF outs.setUp = NoExc
            THEN Count(events, "test") = 1 /\ Count(events, "tearDown") = 1
            ELSE ~Occurs(events, "test") /\ ~Occurs(events, "tearDown")

C1_Witness ==
    /\ RunComplete
    /\ outs.setUp = NoExc /\ outs.test = "ValueError"
    /\ Occurs(events, "tearDown")

OutcomeCalls == {i \in DOMAIN events : events[i] \in {"addSuccess", "addFailure", "addError"}}

\* C2 as stated: one completed run makes exactly one call among addSuccess,
\* addFailure and addError, so never both a failure and an error record.
C2_ExactlyOneOutcome ==
    RunComplete =>
        /\ Cardinality(OutcomeCalls) = 1
        /\ ~(NewFailures # <<>> /\ NewErrors # <<>>)

\* C2 amended: one completed run makes one outcome call, or two when the check
\* raised and tearDown raised as well: then the record of the check (a failure
\* or an error) is followed by an error record for tearDown. addSuccess is
\* never combined with a record, and a run appends at most one failure.
C2_OneOrTwoOutcomes ==
    RunComplete =>
        /\ Cardinality(OutcomeCalls) = IF CheckRaised /\ TearDownRaised THEN 2 ELSE 1
        /\ Occurs(events, "addSuccess") => Cardinality(OutcomeCalls) = 1
        /\ Len(NewFailures) <= 1
        /\ Len(NewFailures) + Len(NewErrors) =
               Count(events, "addFailure") + Count(events, "addError")
        /\ (NewFailures # <<>> /\ NewErrors # <<>>) =>
               /\ outs.test = failureException /\ TearDownRaised
               /\ NewErrors = <<<<Unit, outs.tearDown>>>>
        /\ (CheckRaised /\ TearDownRaised) => Last(events) = "stopTest"
               /\ events[Len(events) - 1] = "addError"

C2_Witness ==
    /\ RunComplete
    /\ outs.test = failureException /\ TearDownRaised
    /\ Len(NewFailures) = 1 /\ Len(NewErrors) = 1

\* C3: when setUp raises any exception the run appends exactly one error
\* record for the unit, no failure record, reports no success, never invokes
\* the check or tearDown, and still increments the run count by one.
C3_SetUpRaises ==
    (RunComplete /\ SetUpRaised) =>
        /\ events = <<"startTest", "setUp", "addError", "stopTest">>
        /\ NewErrors = <<<<Unit, outs.setUp>>>>
        /\ NewFailures = <<>>
        /\ result.testsRun = snap.testsRun + 1
        /\ outs.test = NotRun /\ outs.tearDown = NotRun

C3_Witness ==
    /\ RunComplete
    /\ outs.setUp = failureException
    /\ Len(result.errors) = snap.errors + 1

\* C4: with setUp returned normally, the check is classified by the class of
\* what it raises: the failure class appends one failure record, any other
\* exception appends one error record, no exception appends neither.
C4_Classification ==
    (upc = "tearDown" /\ outs.setUp = NoExc) =>
        /\ outs.test = NoExc => NewFailures = <<>> /\ NewErrors = <<>>
        /\ outs.test = failureException =>
               NewFailures = <<<<Unit, outs.test>>>> /\ NewErrors = <<>>
        /\ outs.test \notin {NoExc, failureException} =>
               NewFailures = <<>> /\ NewErrors = <<<<Unit, outs.test>>>>

C4_Witness ==
    /\ upc = "tearDown"
    /\ outs.test = failureException
    /\ NewFailures = <<<<Unit, failureException>>>>

\* C5: when setUp and the check succeed but tearDown raises, the unit is
\* recorded as an error and addSuccess is never called for it.
C5_TearDownForcesError ==
    (RunComplete /\ outs.setUp = NoExc /\ outs.test = NoExc /\ TearDownRaised) =>
        /\ ~Occurs(events, "addSuccess")
        /\ NewErrors = <<<<Unit, outs.tearDown>>>>
        /\ NewFailures = <<>>
        /\ ~wasSuccessful(result)

C5_Witness ==
    /\ RunComplete
    /\ outs.setUp = NoExc /\ outs.test = NoExc /\ TearDownRaised
    /\ Len(NewErrors) = 1


InUnit == upc \in {"setUp", "test", "tearDown", "finally"}

\* C6: startTest and stopTest bracket every unit run: on every exit path
\* stopTest is called exactly once, after the last outcome record; the number
\* of stopTest calls equals the number of startTest calls whenever no unit is
\* in progress, and at most one unit is ever open.
C6_Bracketing ==
    /\ result.testsRun = Len(started)
    /\ Len(started) = IF InUnit THEN nStopTest + 1 ELSE nStopTest
    /\ (~InUnit /\ events # <<>>) => RunComplete
    /\ RunComplete =>
         /\ Count(events, "stopTest") = 1
         /\ \A i \in OutcomeCalls : i < Len(events)
         /\ OutcomeCalls # {}

C6_Witness ==
    /\ RunComplete /\ ~InUnit
    /\ SetUpRaised
    /\ nStopTest = 2 /\ result.testsRun = 2

\* C7: no exception raised by setUp, the check or tearDown leaves the unit's
\* run: the call returns normally and every raised exception has become one
\* collector record.
C7_NoPropagation ==
    /\ pc # "raised"
    /\ pending = NoExc
    /\ Len(result.failures) + Len(result.errors) = raises

C7_Witness ==
    /\ RunComplete /\ ~InUnit
    /\ outs.test = failureException /\ outs.tearDown = "KeyboardInterrupt"
    /\ pc \in {"running", "returned"}

\* The units of the tree below t, depth first, left to right.
RECURSIVE Flatten(_)
Flatten(t) ==
    LET RECURSIVE Cat(_)
        Cat(seq) == IF seq = <<>> THEN <<>> ELSE Flatten(Head(seq)) \o Cat(Tail(seq))
    IN  IF t \in Cases THEN <<t>> ELSE Cat(tests[t])

TraversalReturned == target = Root /\ pc \in {"returned", "summarizing", "done"}

\* C8: failures and errors never abort the run: when a Suite traversal during
\* which no interrupt occurred and stop() was never called has returned, every
\* unit of the nested tree was started, however many records were made.
C8_NoAbort ==
    (TraversalReturned /\ ~interrupted /\ ~stopCalled) =>
        /\ Len(started) = countTestCases(Root)
        /\ started = Flatten(Root)

C8_Witness ==
    /\ TraversalReturned /\ ~interrupted /\ ~stopCalled
    /\ Len(result.failures) = 1 /\ Len(result.errors) = 1
    /\ result.failures[1][1] = started[1]
    /\ Len(started) = 3

\* C9: cancellation is cooperative: in a Suite traversal no unit is started
\* in a step taken with the stop flag set, in the current Suite or in any
\* enclosing one, while the unit in progress goes on through its check,
\* tearDown and stopTest exactly as without the flag.
C9_Step ==
    /\ (target = Root /\ result.shouldStop # 0) => started' = started
    /\ (result.shouldStop # 0 /\ upc = "setUp") =>
           upc' = IF outs'.setUp = NoExc THEN "test" ELSE "finally"
    /\ (result.shouldStop # 0 /\ upc = "test") =>
           upc' = "tearDown" /\ Occurs(events', "test")
    /\ (result.shouldStop # 0 /\ upc = "tearDown") =>
           upc' = "finally" /\ Occurs(events', "tearDown")
    /\ (result.shouldStop # 0 /\ upc = "finally") =>
           upc' = "none" /\ Last(events') = "stopTest"

C9_Cooperative == [][C9_Step]_vars

C9_Witness ==
    /\ TraversalReturned /\ stopCalled /\ ~interrupted
    /\ tests[Root] = <<"S2", "U2">> /\ tests["S2"] = <<"U1">>
    /\ started = <<"U1">>
    /\ Occurs(events, "tearDown") /\ RunComplete

HasInterruptRecord == \E i \in DOMAIN result.errors : result.errors[i][2] = "KeyboardInterrupt"

\* C10: in a Runner-driven run an interrupt raised inside a check is recorded
\* as an error for that unit and sets the stop flag; the unit still runs its
\* tearDown and stopTest, and no unit call is entered afterwards.
C10_InterruptStops ==
    driver = "runner" =>
        /\ (outs.test = "KeyboardInterrupt" /\ outs.tearDown = NotRun) =>
               /\ NewErrors = <<<<Unit, "KeyboardInterrupt">>>>
               /\ result.shouldStop = 1
               /\ upc = "tearDown"
        /\ (outs.test = "KeyboardInterrupt" /\ ~InUnit) =>
               /\ Occurs(events, "tearDown") /\ RunComplete
               /\ result.shouldStop = 1
        /\ HasInterruptRecord => result.shouldStop = 1
        /\ upc = "call" => ~HasInterruptRecord

C10_Witness ==
    /\ driver = "runner" /\ pc = "done"
    /\ outs.test = "KeyboardInterrupt" /\ outs.tearDown = NoExc
    /\ Len(started) = 1 /\ countTestCases(Root) = 3


IsPrefix(a, b) == Len(a) <= Len(b) /\ SubSeq(b, 1, Len(a)) = a

C11_Order ==
    target = Root =>
        /\ IsPrefix(started, Flatten(Root))
        /\ result.testsRun = Len(started)
        /\ (TraversalReturned /\ result.shouldStop = 0) => started = Flatten(Root)

\* Every addTest appends at the end and leaves the earlier children in place.
C11_Step ==
    \A s \in Suites :
        \/ tests'[s] = tests[s]
        \/ /\ Len(tests'[s]) = Len(tests[s]) + 1
           /\ SubSeq(tests'[s], 1, Len(tests[s])) = tests[s]

\* C11: a Suite runs its children in insertion order against one collector:
\* addTest only ever appends, the startTest calls the collector has seen are
\* always a prefix of the depth-first, left-to-right flattening of the tree,
\* and with no stop request they are the whole flattening once the traversal
\* has returned.
C11_InsertionOrder == []C11_Order /\ [][C11_Step]_vars

C11_Witness ==
    /\ TraversalReturned /\ result.shouldStop = 0
    /\ tests[Root] = <<"U2", "S2">> /\ tests["S2"] = <<"U1">>
    /\ started = <<"U2", "U1">>


\* The sum of f over the indices 1..n.
RECURSIVE SumTo(_, _)
SumTo(f, n) == IF n = 0 THEN 0 ELSE f[n] + SumTo(f, n - 1)

ChildCounts(s) == [i \in DOMAIN tests[s] |-> countTestCases(tests[s][i])]

\* C12: countTestCases of a Suite is the sum of countTestCases over its direct
\* children (1 for a unit, recursively for a nested Suite, 0 when empty); it is
\* computed from the tree as it is now, so in every state reached by addTest
\* calls on the Suite or on a Suite nested in it, it is the number of unit
\* occurrences currently below the Suite.
C12_CountTestCases ==
    /\ \A u \in Cases : countTestCases(u) = 1
    /\ \A s \in Suites :
         /\ countTestCases(s) = SumTo(ChildCounts(s), Len(tests[s]))
         /\ countTestCases(s) = Len(Flatten(s))
         /\ tests[s] = <<>> => countTestCases(s) = 0
    /\ countTestCases(Root) =
           Len(tests[Root]) + Count(tests[Root], "S2") * (Len(tests["S2"]) - 1)

C12_Witness ==
    /\ tests[Root] = <<"S2">> /\ Len(tests["S2"]) = 2
    /\ countTestCases(Root) = 2


\* The children of s filed under name n, by position.
Filed(s, n) == {i \in DOMAIN tests[s] : DerivedName(tests[s][i]) = n}
LastFiled(s, n) ==
    IF Filed(s, n) = {} THEN "KeyError"
    ELSE tests[s][CHOOSE i \in Filed(s, n) : \A j \in Filed(s, n) : j <= i]

\* C13 as stated: every child that was added is returned by getTestForName
\* under its derived name.
C13_EveryChildRetrievable ==
    \A s \in Suites : \A i \in DOMAIN tests[s] :
        getTestForName(s, DerivedName(tests[s][i])) = tests[s][i]

\* C13 amended: getTestForName returns the child added last under a derived
\* name (the suite name of a named Suite, the method name of a unit): a child
\* is returned under its name unless a different child with the same derived
\* name was added after it, and a name nothing was filed under is an error.
C13_LastChildRetrievable ==
    \A s \in Suites :
        /\ \A n \in Names : getTestForName(s, n) = LastFiled(s, n)
        /\ \A i \in DOMAIN tests[s] :
               (\A j \in DOMAIN tests[s] :
                    (j > i /\ DerivedName(tests[s][j]) = DerivedName(tests[s][i]))
                        => tests[s][j] = tests[s][i])
               => getTestForName(s, DerivedName(tests[s][i])) = tests[s][i]
        /\ (\E i \in DOMAIN tests[s] : tests[s][i] = "S2") =>
               getTestForName(s, "FixtureX") = "S2"

C13_Witness ==
    /\ tests[Root] = <<"U1", "S2", "U2">>
    /\ getTestForName(Root, "testA") = "U2"
    /\ getTestForName(Root, "FixtureX") = "S2"


\* C14: in every reachable collector state wasSuccessful() is true exactly
\* when the failure sequence and the error sequence are both empty, whatever
\* the run count and the stop flag are.
C14_WasSuccessful ==
    /\ wasSuccessful(result) <=> (result.failures = <<>> /\ result.errors = <<>>)
    /\ \A n \in {0, result.testsRun + 1} :
           wasSuccessful([result EXCEPT !.testsRun = n, !.shouldStop = 1 - @])
               = wasSuccessful(result)

C14_Witness ==
    /\ result.testsRun = 2 /\ result.shouldStop = 1
    /\ Len(result.failures) = 1 /\ Len(result.errors) = 1
    /\ ~wasSuccessful(result)

\* The run of the target is over: the Suite traversal returned, or the call
\* of the single unit did.
TargetReturned == pc \in {"returned", "summarizing", "done"}

\* C15: when setUp and tearDown of every unit succeed, the collector was
\* fresh and nothing asked it to stop, the finished run of a Suite of n units
\* leaves run count n, as many failure records as checks raised the failure
\* class and as many error records as checks raised anything else; one unit
\* whose three phases all succeed leaves run count 1 and no record.
C15_Totals ==
    (TargetReturned /\ result.shouldStop = 0) =>
        /\ result.testsRun = Len(Flatten(target))
        /\ Len(result.failures) = tally.failed
        /\ Len(result.errors) = tally.errored
        /\ (target \in Cases /\ outs.test = NoExc) =>
               /\ result.testsRun = 1
               /\ result.failures = <<>>
               /\ result.errors = <<>>

C15_Witness ==
    /\ TargetReturned /\ result.shouldStop = 0 /\ target = Root
    /\ result.testsRun = 3
    /\ tally = [failed |-> 1, errored |-> 1]
    /\ Len(result.failures) = 1 /\ Len(result.errors) = 1

\* How far TextTestRunner.run has got; "returned" is the moment between the
\* return of test(result) and endTests(), still part of running.
Phase(p) ==
    CASE p = "idle" -> 0 [] p = "running" -> 1 [] p = "returned" -> 2
      [] p = "summarizing" -> 3 [] p = "done" -> 4 [] OTHER -> 9

\* The line summarize() writes about the run count.
RanLine(r) ==
    "Ran " \o ToString(r.testsRun) \o " test" \o (IF r.testsRun = 1 THEN "" ELSE "s") \o "\n"

C16_Order ==
    driver = "runner" =>
        /\ pc \in {"running", "returned", "summarizing", "done"}
        /\ result.timing = (IF pc \in {"summarizing", "done"} THEN "stopped" ELSE "started")
        /\ Len(started) > 0 => result.timing # "unset"
        /\ pc \in {"returned", "summarizing", "done"} =>
               stack = <<>> /\ cur = None /\ upc = "none"
        /\ Count(result.out, RanLine(result)) = (IF pc = "done" THEN 1 ELSE 0)
        /\ Count(result.out, Sep2 \o "\n") >= 1 => pc = "done"
        /\ (result.err # <<>>) <=> pc = "done"

C16_Step ==
    driver' = "runner" =>
        /\ Phase(pc') \in {Phase(pc), Phase(pc) + 1}
        /\ pc \in {"summarizing", "done"} =>
               started' = started /\ result'.testsRun = result.testsRun
        /\ pc = "done" => result' = result

\* C16: the Runner goes idle, running, summarizing, done and never back:
\* beginTests comes before every startTest, endTests only after the traversal
\* returned (complete or halted by a stop request), summarize runs once and
\* only then, and no unit is started while or after it runs.
C16_RunnerPhases == []C16_Order /\ [][C16_Step]_vars

C16_Witness ==
    /\ driver = "runner" /\ pc = "done"
    /\ result.shouldStop = 1
    /\ countTestCases(Root) = 3 /\ Len(started) = 2
    /\ Count(result.out, RanLine(result)) = 1

\* summarize() has written the last token of its verdict line.
VerdictPrinted == result.err # <<>> /\ Last(result.err) \in {"OK\n", ")\n"}

\* C17: when every setUp, check and tearDown returns or raises, a Runner
\* invocation on a finite Suite tree eventually is done and has printed a
\* verdict, whatever mix of successes, failures, errors and interrupts the
\* units produce.
C17_Terminates == (driver = "runner") ~> (pc = "done" /\ VerdictPrinted)

C17_Witness ==
    /\ driver = "runner" /\ pc = "done" /\ VerdictPrinted
    /\ interrupted
    /\ Len(result.failures) = 1 /\ Len(result.errors) = 1
    /\ Len(started) = 2

\* The tree the repeated runs start from is one addTest builds.
RerunTreeBuilt == InitRerun

\* C18: every Runner invocation drives the tree against a collector of its
\* own: when a run starts its collector has run count 0, no failure or error
\* record and a clear stop flag, whatever the previous run left behind, and
\* all through the run it counts only the units this run started and is
\* asked to stop only by this run.
C18_FreshCollector ==
    (driver = "runner" /\ runs >= 1) =>
        /\ (pc = "running" /\ started = <<>>) =>
               /\ result.testsRun = 0
               /\ result.failures = <<>>
               /\ result.errors = <<>>
               /\ result.shouldStop = 0
        /\ result.testsRun = Len(started)
        /\ Len(result.failures) + Len(result.errors) <= raises
        /\ result.shouldStop # 0 => (stopCalled \/ interrupted)

C18_Witness ==
    /\ runs = 2 /\ pc = "done"
    /\ prev = [testsRun |-> 1, failures |-> 0, errors |-> 1, shouldStop |-> 1]
    /\ result.testsRun = 2 /\ result.shouldStop = 0
    /\ result.errors = <<>> /\ Len(result.failures) = 1

IsSuffix(a, b) == Len(a) <= Len(b) /\ SubSeq(b, Len(b) - Len(a) + 1, Len(b)) = a

\* The writes that make up the verdict line for n failures and m errors.
VerdictFor(n, m) ==
    IF n = 0 /\ m = 0 THEN <<"OK\n">>
    ELSE <<"FAILED (">>
         \o (IF n > 0 THEN <<"failures=" \o ToString(n)>> ELSE <<>>)
         \o (IF n > 0 /\ m > 0 THEN <<", ">> ELSE <<>>)
         \o (IF m > 0 THEN <<"errors=" \o ToString(m)>> ELSE <<>>)
         \o <<")\n">>

\* C19: the last thing a finished run wrote to the error stream is the
\* verdict line: "OK" exactly when wasSuccessful() holds, otherwise
\* "FAILED (...)" naming failures=n only for n > 0 and errors=m only for
\* m > 0, n and m being the lengths of the two sequences; none of it goes to
\* the output stream.
C19_Verdict ==
    (driver = "runner" /\ pc = "done") =>
        /\ IsSuffix(VerdictFor(Len(result.failures), Len(result.errors)), result.err)
        /\ (Last(result.err) = "OK\n") <=> wasSuccessful(result)
        /\ Count(result.err, "OK\n") + Count(result.err, "FAILED (") = 1
        /\ Count(result.err, ")\n") = Count(result.err, "FAILED (")
        /\ ~Occurs(result.out, "OK\n") /\ ~Occurs(result.out, "FAILED (")
        /\ ~Occurs(result.out, ")\n")

C19_Witness ==
    /\ driver = "runner" /\ pc = "done"
    /\ result.failures = <<>> /\ Len(result.errors) = 2
    /\ IsSuffix(<<"FAILED (", "errors=2", ")\n">>, result.err)

\* What startTest, addSuccess, addError and addFailure write as progress.
ProgressTokens == {".", "E", "F", "ok\n", "ERROR\n", "FAIL\n", " ... "}

\* Nothing of a failure or error block is written before summarize().
BlocksOnlyAtEnd ==
    (driver = "runner" /\ pc # "done") =>
        /\ result.err = <<>>
        /\ ~Occurs(result.out, ErrorSep1 \o "\n")
        /\ ~Occurs(result.out, ErrorSep2 \o "\n")

\* No progress indicator is written to the error stream.
NoProgressOnErr ==
    driver = "runner" => \A i \in DOMAIN result.err : result.err[i] \notin ProgressTokens

\* The rule that opens each block is written to the error stream, once per
\* record, and never to the output stream.
BlockRulesOnErr ==
    (driver = "runner" /\ pc = "done") =>
        /\ ~Occurs(result.out, ErrorSep1 \o "\n")
        /\ Count(result.err, ErrorSep1 \o "\n") =
               Len(result.failures) + Len(result.errors)

\* C20 as stated: progress and diagnostics go to separate streams; blocks are
\* rendered only while summarizing, every write of a block, its separator
\* rules included, goes to the error stream, and no progress indicator does.
\* The code sends the separator rules of each block to the output stream.
C20_StreamsSeparate == BlocksOnlyAtEnd /\ NoProgressOnErr /\ BlockRulesOnErr

\* The terse collector is between two units or past the last one, and
\* summarize() has not written yet.
TerseBetweenUnits ==
    /\ driver = "runner" /\ Dots(result)
    /\ pc \in {"running", "returned", "summarizing"}
    /\ upc = "none"

ProgressChars == {".", "F", "E"}

RECURSIVE CharsOf(_)
\* The progress characters the calls in ev write in terse mode.
CharsOf(ev) ==
    IF ev = <<>> THEN <<>>
    ELSE (CASE Head(ev) = "addSuccess" -> <<".">>
            [] Head(ev) = "addFailure" -> <<"F">>
            [] Head(ev) = "addError" -> <<"E">>
            [] OTHER -> <<>>) \o CharsOf(Tail(ev))

\* C21 as stated: in terse mode exactly one progress character per unit that
\* was started and finished.
C21_OneCharPerUnit ==
    TerseBetweenUnits => Len(result.out) = nStopTest

\* C21 amended: in terse mode the collector writes one progress character
\* per outcome call, in call order and nothing else while units run: one per
\* unit, and two ('F' or 'E', then 'E') for a unit whose check raised and
\* whose tearDown raised as well; as many 'F' as failure records and as many
\* 'E' as error records.
C21_OneCharPerOutcome ==
    (driver = "runner" /\ Dots(result) /\ pc \in {"running", "returned", "summarizing"}) =>
        /\ \A i \in DOMAIN result.out : result.out[i] \in ProgressChars
        /\ result.err = <<>>
        /\ Count(result.out, "F") = Len(result.failures)
        /\ Count(result.out, "E") = Len(result.errors)
        /\ (RunComplete /\ upc = "none") =>
               /\ IsSuffix(CharsOf(events), result.out)
               /\ Len(CharsOf(events)) = (IF CheckRaised /\ TearDownRaised THEN 2 ELSE 1)
        /\ upc = "none" =>
               /\ Len(result.out) >= nStopTest
               /\ Len(result.out) <= nStopTest + (raises \div 2)
               /\ raises < 2 => Len(result.out) = nStopTest

C21_Witness ==
    /\ TerseBetweenUnits /\ nStopTest = 1
    /\ outs.test = failureException /\ outs.tearDown = "ValueError"
    /\ result.out = <<"F", "E">>

\* The writes of one block, as the report is meant to read.
BlockOf(flavour, rec, explain) ==
    <<<<"out", ErrorSep1 \o "\n">>,
      <<"err", flavour \o " " \o Id(rec[1]) \o " (" \o Describe(rec[1]) \o ")\n">>>>
    \o (IF explain /\ Explain(rec[1]) # ""
        THEN <<<<"out", ErrorSep2 \o "\n">>, <<"err", Explain(rec[1])>>, <<"err", "\n">>>>
        ELSE <<>>)
    \o <<<<"out", ErrorSep2 \o "\n">>,
          <<"err", "Traceback: " \o rec[2] \o "\n">>,
          <<"err", "\n">>>>

RECURSIVE BlocksOf(_, _, _)
BlocksOf(flavour, recs, explain) ==
    IF recs = <<>> THEN <<>>
    ELSE BlockOf(flavour, Head(recs), explain) \o BlocksOf(flavour, Tail(recs), explain)

OnErr(tokens) == [i \in DOMAIN tokens |-> <<"err", tokens[i]>>]

\* Everything summarize() is to write for collector r, in order.
SummaryOf(r, explain, ran) ==
    (IF r.verbosity >= 1 THEN <<<<"out", "\n">>>> ELSE <<>>)
    \o BlocksOf("ERROR", r.errors, explain)
    \o BlocksOf("FAIL", r.failures, explain)
    \o <<<<"out", Sep2 \o "\n">>,
          <<"out", "Ran " \o ToString(ran) \o (IF ran = 1 THEN " test\n" ELSE " tests\n")>>,
          <<"out", "\n">>>>
    \o OnErr(VerdictFor(Len(r.failures), Len(r.errors)))

\* The writes to both streams in the order of the calls, each with its stream.
RECURSIVE Interleave(_, _, _)
Interleave(tags, out, err) ==
    IF tags = <<>> THEN <<>>
    ELSE IF Head(tags) = "out"
        THEN <<<<"out", Head(out)>>>> \o Interleave(Tail(tags), Tail(out), err)
    ELSE <<<<"err", Head(err)>>>> \o Interleave(Tail(tags), out, Tail(err))

WriteLog == Interleave(result.log, result.out, result.err)

\* C22: summarize() writes, in this order, the error blocks and then the
\* failure blocks (each list in the order its records were appended), the
\* second separator, the line with the run count, and the verdict line last;
\* the count printed is the number of units the traversal started. What was
\* written before is progress output only.
C22_SummaryOrder ==
    (driver = "runner" /\ pc = "done") =>
        \E explain \in BOOLEAN :
            LET exp == SummaryOf(result, explain, Len(started))
                pre == SubSeq(WriteLog, 1, Len(WriteLog) - Len(exp))
            IN  /\ IsSuffix(exp, WriteLog)
                /\ \A i \in DOMAIN pre :
                       /\ pre[i][1] = "out"
                       /\ pre[i][2] \notin {Sep2 \o "\n", ErrorSep1 \o "\n"}
                /\ Last(WriteLog)[1] = "err"

C22_Witness ==
    /\ driver = "runner" /\ pc = "done" /\ result.verbosity = 1
    /\ result.errors = <<<<"U2", "ValueError">>>>
    /\ result.failures = <<<<"U1", "AssertionError">>>>
    /\ IsSuffix(BlockOf("ERROR", result.errors[1], TRUE)
                 \o BlockOf("FAIL", result.failures[1], TRUE)
                 \o <<<<"out", Sep2 \o "\n">>, <<"out", "Ran 2 tests\n">>, <<"out", "\n">>,
                       <<"err", "FAILED (">>, <<"err", "failures=1">>, <<"err", ", ">>,
                       <<"err", "errors=1">>, <<"err", ")\n">>>>,
                WriteLog)

\* ------------------------------------------------------------ the TestLoader
\* The characters of the attribute names the sample module and classes use,
\* so that slicing a name and comparing two names is computed.
Chars(n) ==
    CASE n = "test"     -> <<"t", "e", "s", "t">>
      [] n = "testA"    -> <<"t", "e", "s", "t", "A">>
      [] n = "testB"    -> <<"t", "e", "s", "t", "B">>
      [] n = "testC"    -> <<"t", "e", "s", "t", "C">>
      [] n = "setUp"    -> <<"s", "e", "t", "U", "p">>
      [] n = "tearDown" -> <<"t", "e", "a", "r", "D", "o", "w", "n">>
      [] n = "te"       -> <<"t", "e">>

\* ord(c) of the characters above.
Ord(c) ==
    CASE c = "A" -> 65 [] c = "B" -> 66 [] c = "C" -> 67 [] c = "D" -> 68
      [] c = "U" -> 85 [] c = "a" -> 97 [] c = "e" -> 101 [] c = "n" -> 110
      [] c = "o" -> 111 [] c = "p" -> 112 [] c = "r" -> 114 [] c = "s" -> 115
      [] c = "t" -> 116 [] c = "w" -> 119

\* testFnName[:len(prefix)] == prefix
HasPrefix(n, p) ==
    LET a == Chars(n)
        b == Chars(p)
    IN  SubSeq(a, 1, IF Len(b) < Len(a) THEN Len(b) ELSE Len(a)) = b

\* The builtin cmp on two character sequences: -1, 0 or 1.
RECURSIVE cmpChars(_, _)
cmpChars(a, b) ==
    IF a = <<>> /\ b = <<>> THEN 0
    ELSE IF a = <<>> THEN -1
    ELSE IF b = <<>> THEN 1
    ELSE IF Ord(Head(a)) < Ord(Head(b)) THEN -1
    ELSE IF Ord(Head(a)) > Ord(Head(b)) THEN 1
    ELSE cmpChars(Tail(a), Tail(b))

cmp(a, b) == cmpChars(Chars(a), Chars(b))

\* The ordering functions a loader is given: cmp, cmp reversed, or None.
SortFunctions == {"cmp", "reversed", "none"}
Compare(f, a, b) == IF f = "reversed" THEN cmp(b, a) ELSE cmp(a, b)

\* list.sort(f): the elements in an order f never objects to.
RECURSIVE InsertSorted(_, _, _)
InsertSorted(x, seq, f) ==
    IF seq = <<>> THEN <<x>>
    ELSE IF Compare(f, x, Head(seq)) < 0 THEN <<x>> \o seq
    ELSE <<Head(seq)>> \o InsertSorted(x, Tail(seq), f)

RECURSIVE sort(_, _)
sort(seq, f) ==
    IF seq = <<>> THEN <<>> ELSE InsertSorted(Head(seq), sort(Tail(seq), f), f)

\* The classes of the sample modules. Base, Left, Right and Diamond form a
\* diamond under TestCase; Helper is a class that is no TestCase.
ClassNames == {"TestCase", "Base", "Left", "Right", "Diamond", "Helper",
               "FixtureX", "FixtureY"}

\* aClass.__bases__
bases(c) ==
    CASE c = "Base"     -> <<"TestCase">>
      [] c = "Left"     -> <<"Base">>
      [] c = "Right"    -> <<"Base">>
      [] c = "Diamond"  -> <<"Left", "Right">>
      [] c = "FixtureX" -> <<"TestCase">>
      [] c = "FixtureY" -> <<"TestCase">>
      [] OTHER          -> <<>>

\* The methods a class statement defines itself.
OwnNames(c) ==
    CASE c = "TestCase" -> {"setUp", "tearDown"}
      [] c = "Base"     -> {"testB", "testA", "setUp"}
      [] c = "Left"     -> {"testA", "testC"}
      [] c = "Right"    -> {"testB", "tearDown"}
      [] c = "Diamond"  -> {}
      [] c = "Helper"   -> {"testA"}
      [] c = "FixtureX" -> {"testA"}
      [] c = "FixtureY" -> {"testA"}

\* The methods a class has: its own and those it inherits.
RECURSIVE AllNames(_)
AllNames(c) ==
    OwnNames(c) \cup UNION {AllNames(bases(c)[i]) : i \in DOMAIN bases(c)}

\* issubclass(c, d)
RECURSIVE issubclass(_, _)
issubclass(c, d) ==
    c = d \/ \E i \in DOMAIN bases(c) : issubclass(bases(c)[i], d)

\* The elements of a set as a sequence.
RECURSIVE SeqOf(_)
SeqOf(S) ==
    IF S = {} THEN <<>>
    ELSE LET x == CHOOSE y \in S : TRUE IN <<x>> \o SeqOf(S \ {x})

\* dir(aClass): a sorted list of names, of the class alone or of the class
\* and its bases, as the interpreter has it.
dir(ld, c) ==
    sort(SeqOf(IF ld.dir = "own" THEN OwnNames(c) ELSE AllNames(c)), "cmp")

\* for testFnName in names: if testFnName not in testFnNames: append
RECURSIVE AppendNew(_, _)
AppendNew(acc, names) ==
    IF names = <<>> THEN acc
    ELSE AppendNew(IF Occurs(acc, Head(names)) THEN acc ELSE Append(acc, Head(names)),
                   Tail(names))

\* if self.sortTestMethodsUsing: testFnNames.sort(self.sortTestMethodsUsing)
SortNames(ld, names) ==
    IF ld.sortUsing # "none" THEN sort(names, ld.sortUsing) ELSE names

\* Mutant: the names of the base classes are appended without looking.
RECURSIVE getTestCaseNames_noDedup(_, _)
getTestCaseNames_noDedup(ld, c) ==
    LET own == SelectSeq(dir(ld, c), LAMBDA n : HasPrefix(n, ld.prefix))
        Merge[i \in 0..Len(bases(c))] ==
            IF i = 0 THEN own
            ELSE Merge[i - 1] \o getTestCaseNames_noDedup(ld, bases(c)[i])
    IN  SortNames(ld, Merge[Len(bases(c))])

\* Mutant: the list is returned as collected, never sorted.
RECURSIVE getTestCaseNames_unsorted(_, _)
getTestCaseNames_unsorted(ld, c) ==
    LET own == SelectSeq(dir(ld, c), LAMBDA n : HasPrefix(n, ld.prefix))
        Merge[i \in 0..Len(bases(c))] ==
            IF i = 0 THEN own
            ELSE AppendNew(Merge[i - 1], getTestCaseNames_unsorted(ld, bases(c)[i]))
    IN  Merge[Len(bases(c))]

\* TestLoader.getTestCaseNames(testCaseClass)
RECURSIVE getTestCaseNames(_, _)
getTestCaseNames(ld, c) ==
    LET own == SelectSeq(dir(ld, c), LAMBDA n : HasPrefix(n, ld.prefix))
        Merge[i \in 0..Len(bases(c))] ==
            IF i = 0 THEN own
            ELSE AppendNew(Merge[i - 1], getTestCaseNames(ld, bases(c)[i]))
    IN  SortNames(ld, Merge[Len(bases(c))])

\* The modules: package pkg holds module mod; main is the program's own.
ModuleNames == {"pkg", "mod", "main"}

\* dir(module): the names a module binds, sorted.
ModuleDir(m) ==
    CASE m = "pkg"  -> <<"mod">>
      [] m = "mod"  -> <<"Base", "Diamond", "Helper", "Left", "Right", "answer",
                         "makeInt", "makeSuite", "theSuite", "theUnit">>
      [] m = "main" -> <<"FixtureX", "answer", "unitY">>

\* What each of those names is bound to.
ModuleAttr(m, a) ==
    CASE a = "mod" -> ModuleObj("mod")
      [] a \in {"Base", "Diamond", "Helper", "Left", "Right", "FixtureX"} -> ClassObj(a)
      [] a = "answer" -> OtherObj("42")
      [] a \in {"makeInt", "makeSuite"} -> FunctionObj(a)
      [] a = "theSuite" -> theSuite
      [] a = "theUnit" -> theUnit
      [] a = "unitY" -> unitY

\* getattr(obj, part)
getattr(o, part) ==
    IF o.kind = "module" /\ Occurs(ModuleDir(o.name), part)
        THEN [exc |-> NoExc, val |-> ModuleAttr(o.name, part)]
    ELSE IF o.kind = "class" /\ part \in AllNames(o.name)
        THEN [exc |-> NoExc, val |-> MethodObj(o.name, part)]
    ELSE IF o.kind = "unit" /\ part \in AllNames(o.cls)
        THEN [exc |-> NoExc, val |-> MethodObj(o.cls, part)]
    ELSE [exc |-> "AttributeError", val |-> NoObj]

\* for part in parts: getTestForName on a Suite, getattr on anything else.
RECURSIVE Walk(_, _)
Walk(o, parts) ==
    IF parts = <<>> THEN [exc |-> NoExc, val |-> o]
    ELSE LET r == IF o.kind = "suite" THEN SuiteLookup(o, Head(parts))
                  ELSE getattr(o, Head(parts))
         IN  IF r.exc # NoExc THEN r ELSE Walk(r.val, Tail(parts))

\* What a loader call gives: what it returned or what it raised, and the
\* identity the next new instance will get.
Returned(o, n) == [exc |-> NoExc, val |-> o, next |-> n]
Raised(e, n) == [exc |-> e, val |-> NoObj, next |-> n]

\* The dotted names __import__ finds a module for.
Importable == {<<"pkg">>, <<"pkg", "mod">>, <<"main">>}

\* obj(): calling a function or a class with no arguments.
Call(o, n) ==
    IF o.kind = "function" /\ o.name = "makeSuite"
        THEN Returned(SuiteObj(n + 1, None, <<UnitObj(n, "FixtureX", "testA")>>), n + 2)
    ELSE IF o.kind = "function" THEN Returned(OtherObj("42"), n)
    ELSE Returned(OtherObj("instance"), n)

callable(o) == o.kind \in {"function", "class", "unit", "method"}

\* Mutant: the units are built once and handed out again by every call.
SuiteOfNames_reusesUnits(c, names, n) ==
    Returned(SuiteObj(n, c, [i \in 1..Len(names) |-> UnitObj(FirstOid + i - 1, c, names[i])]),
             n + 1)

\* map(testCaseClass, names) and the Suite built around the new units.
SuiteOfNames(c, names, n) ==
    Returned(SuiteObj(n + Len(names), c,
                      [i \in 1..Len(names) |-> UnitObj(n + i - 1, c, names[i])]),
             n + Len(names) + 1)

\* TestLoader.loadTestsFromTestCase(testCaseClass)
loadTestsFromTestCase(ld, c, n) == SuiteOfNames(c, getTestCaseNames(ld, c), n)

\* tests.append(what a load returned)
Loaded(acc, r) ==
    [exc |-> NoExc, tests |-> Append(acc.tests, r.val), next |-> r.next]

\* self.suiteClass(tests) once the loop is through; nothing if it raised.
SuiteOfLoaded(acc) ==
    IF acc.exc # NoExc THEN Raised(acc.exc, acc.next)
    ELSE Returned(SuiteObj(acc.next, None, acc.tests), acc.next + 1)

\* type(obj) == types.ClassType and issubclass(obj, TestCase)
IsTestCaseClass(o) == o.kind = "class" /\ issubclass(o.name, "TestCase")

\* TestLoader.loadTestsFromModule(module)
loadTestsFromModule(ld, m, n) ==
    LET Load[i \in 0..Len(ModuleDir(m))] ==
            IF i = 0 THEN [exc |-> NoExc, tests |-> <<>>, next |-> n]
            ELSE IF IsTestCaseClass(ModuleAttr(m, ModuleDir(m)[i]))
                THEN Loaded(Load[i - 1],
                            loadTestsFromTestCase(ld, ModuleDir(m)[i], Load[i - 1].next))
            ELSE Load[i - 1]
    IN  SuiteOfLoaded(Load[Len(ModuleDir(m))])

\* Mutant: whatever the call returned is handed on.
MustBeTest_unchecked(r) == r

\* if not isinstance(test, TestCase) and not isinstance(test, TestSuite): raise
MustBeTest(r) ==
    IF r.val.kind \notin {"unit", "suite"} THEN Raised("ValueError", r.next) ELSE r

\* The part of loadTestsFromName that decides what to make of the object
\* the name led to.
Classify(ld, o, n) ==
    IF o.kind = "module" THEN loadTestsFromModule(ld, o.name, n)
    ELSE IF IsTestCaseClass(o) THEN loadTestsFromTestCase(ld, o.name, n)
    ELSE IF o.kind = "method"
        THEN IF issubclass(o.cls, "TestCase")
             THEN Returned(UnitObj(n, o.cls, o.method), n + 1)
             ELSE Raised("TypeError", n)
    ELSE IF o.kind = "suite" THEN Returned(o, n)
    ELSE IF o.kind = "unit" THEN Returned(o, n)
    ELSE IF callable(o) THEN MustBeTest(Call(o, n))
    ELSE Raised("ValueError", n)

\* A lookup that raised ends the call; otherwise the object is classified.
Resolved(ld, r, n) ==
    IF r.exc # NoExc THEN Raised(r.exc, n) ELSE Classify(ld, r.val, n)

\* TestLoader.loadTestsFromName(name, module): name is the dotted name split
\* at its dots, module a module's name or None.
loadTestsFromName(ld, name, module, n) ==
    IF module # None THEN Resolved(ld, Walk(ModuleObj(module), name), n)
    ELSE IF \A k \in 1..Len(name) : SubSeq(name, 1, k) \notin Importable
        THEN Raised("ImportError", n)
    ELSE Resolved(ld, Walk(ModuleObj(name[1]), Tail(name)), n)

\* Mutant: each result is put in front of those loaded before it.
LoadedName_prepends(acc, r) ==
    IF r.exc # NoExc THEN [exc |-> r.exc, tests |-> acc.tests, next |-> r.next]
    ELSE [exc |-> NoExc, tests |-> <<r.val>> \o acc.tests, next |-> r.next]

\* Mutant: a name that does not resolve is left out and the loop goes on.
LoadedName_skipsUnresolved(acc, r) ==
    IF r.exc # NoExc THEN acc ELSE Loaded(acc, r)

\* suites.append(self.loadTestsFromName(name, module)): an exception ends the
\* loop and leaves the call.
LoadedName(acc, r) ==
    IF r.exc # NoExc THEN [exc |-> r.exc, tests |-> acc.tests, next |-> r.next]
    ELSE Loaded(acc, r)

\* TestLoader.loadTestsFromNames(names, module)
loadTestsFromNames(ld, names, module, n) ==
    LET Load[i \in 0..Len(names)] ==
            IF i = 0 THEN [exc |-> NoExc, tests |-> <<>>, next |-> n]
            ELSE IF Load[i - 1].exc # NoExc THEN Load[i - 1]
            ELSE LoadedName(Load[i - 1],
                            loadTestsFromName(ld, names[i], module, Load[i - 1].next))
    IN  SuiteOfLoaded(Load[Len(names)])

\* ------------------------------------------------- a program using a loader

\* The loaders tried: each ordering function where dir() lists a class's own
\* names, and the default one where it lists the inherited names too.
Loaders ==
    {ld \in [prefix : {"test"}, sortUsing : SortFunctions, dir : {"own", "all"}] :
        ld.sortUsing = "cmp" \/ ld.dir = "own"}

\* The TestCase classes handed to the loader.
LoadedClasses == {"Base", "Left", "Diamond"}

\* The names handed to loadTestsFromName, each with the module it is
\* resolved in (None: the name starts with the module's own dotted name).
LoadRequests ==
    {[name |-> <<"Left", "testC">>, module |-> "mod"],
     [name |-> <<"Left", "testD">>, module |-> "mod"],
     [name |-> <<"theSuite", "FixtureX">>, module |-> "mod"],
     [name |-> <<"theSuite", "FixtureY">>, module |-> "mod"],
     [name |-> <<"theUnit">>, module |-> "mod"],
     [name |-> <<"makeSuite">>, module |-> "mod"],
     [name |-> <<"makeInt">>, module |-> "mod"],
     [name |-> <<"Helper">>, module |-> "mod"],
     [name |-> <<"answer">>, module |-> "mod"],
     [name |-> <<"pkg", "mod", "Diamond", "testB">>, module |-> None],
     [name |-> <<"pkg", "mod">>, module |-> None],
     [name |-> <<"pkg", "nomod", "Left">>, module |-> None],
     [name |-> <<"nopkg", "mod">>, module |-> None]}

\* The name lists handed to loadTestsFromNames, resolved in module mod.
ListedNames == {<<"Left">>, <<"theUnit">>, <<"nosuch">>}
NameLists == UNION {[1..k -> ListedNames] : k \in 0..2}

\* One loader call as the program sees it: what was asked, what came back.
LoadCall(op, c, names, module, r, listed) ==
    [op |-> op, cls |-> c, names |-> names, module |-> module, res |-> r,
     listed |-> listed]

InitLoader ==
    /\ InitRun
    /\ loader \in Loaders
    /\ nextOid = FirstOid
    /\ calls = <<>>
    /\ prog = NoProgram

\* Everything the loader never touches.
runnerVars == <<tests, testMap, adds, runVars>>

\* names = loader.getTestCaseNames(testCaseClass)
GetTestCaseNames(c) ==
    /\ calls' = Append(calls, LoadCall("getTestCaseNames", c, <<>>, None,
                                       Returned(NoObj, nextOid),
                                       getTestCaseNames(loader, c)))
    /\ UNCHANGED <<loader, nextOid, prog, runnerVars>>

\* suite = loader.loadTestsFromTestCase(testCaseClass)
LoadTestsFromTestCase(c) ==
    LET r == loadTestsFromTestCase(loader, c, nextOid)
    IN  /\ calls' = Append(calls, LoadCall("loadTestsFromTestCase", c, <<>>, None, r, <<>>))
        /\ nextOid' = r.next
        /\ UNCHANGED <<loader, prog, runnerVars>>

\* test = loader.loadTestsFromName(name, module), or the exception it raised
LoadTestsFromName(q) ==
    LET r == loadTestsFromName(loader, q.name, q.module, nextOid)
    IN  /\ calls' = Append(calls, LoadCall("loadTestsFromName", None, <<q.name>>,
                                           q.module, r, <<>>))
        /\ nextOid' = r.next
        /\ UNCHANGED <<loader, prog, runnerVars>>

\* suite = loader.loadTestsFromNames(names, module), or the exception it raised
LoadTestsFromNames(names) ==
    LET r == loadTestsFromNames(loader, names, "mod", nextOid)
    IN  /\ calls' = Append(calls, LoadCall("loadTestsFromNames", None, names, "mod", r, <<>>))
        /\ nextOid' = r.next
        /\ UNCHANGED <<loader, prog, runnerVars>>

NextLoader ==
    \/ \E c \in LoadedClasses : Len(calls) < MaxLoads /\ GetTestCaseNames(c)
    \/ \E c \in LoadedClasses : Len(calls) < MaxLoads /\ LoadTestsFromTestCase(c)
    \/ \E q \in LoadRequests : Len(calls) < MaxLoads /\ LoadTestsFromName(q)
    \/ \E names \in NameLists : Len(calls) < MaxLoads /\ LoadTestsFromNames(names)

SpecLoader == InitLoader /\ [][NextLoader]_vars

\* ------------------------------------------------- properties of the loader
\* The identities of an object and of everything below it.
RECURSIVE Oids(_)
Oids(o) ==
    IF o.kind \notin {"unit", "suite"} THEN {}
    ELSE {o.oid} \cup UNION {Oids(o.tests[i]) : i \in DOMAIN o.tests}

\* An object with the identities blanked: what it is, not which one.
RECURSIVE Shape(_)
Shape(o) == [o EXCEPT !.oid = 0, !.tests = [i \in DOMAIN o.tests |-> Shape(o.tests[i])]]

\* The identities the program held before its k-th loader call.
OidsBefore(k) ==
    (1..(FirstOid - 1)) \cup UNION {Oids(calls[j].res.val) : j \in 1..(k - 1)}

\* The check names of class c: those with the loader's prefix among the
\* names c or one of its ancestors defines.
Selected(c) == {n \in AllNames(c) : HasPrefix(n, loader.prefix)}

MethodsOf(suite) == [i \in DOMAIN suite.tests |-> suite.tests[i].method]
IdsOf(suite) == [i \in DOMAIN suite.tests |-> UnitId(suite.tests[i])]
CallsOf(op) == {k \in DOMAIN calls : calls[k].op = op}

\* C24: loading a fixture gives a Suite with exactly one unit per selected
\* check name, each a new instance of the fixture, in the order the loader's
\* ordering function puts the names in; under the default ordering that is
\* ascending string order.
C24_OneUnitPerName ==
    \A k \in CallsOf("loadTestsFromTestCase") :
        LET c == calls[k].cls
            s == calls[k].res.val
        IN  /\ calls[k].res.exc = NoExc /\ s.kind = "suite"
            /\ Len(s.tests) = Cardinality(Selected(c))
            /\ \A n \in Selected(c) : Occurs(MethodsOf(s), n)
            /\ \A i \in DOMAIN s.tests :
                /\ s.tests[i].kind = "unit" /\ s.tests[i].cls = c
                /\ s.tests[i].oid \notin OidsBefore(k)
                /\ \A j \in DOMAIN s.tests : j # i => s.tests[j].oid # s.tests[i].oid
            /\ loader.sortUsing # "none" =>
                \A i, j \in DOMAIN s.tests :
                    i < j => Compare(loader.sortUsing, s.tests[i].method, s.tests[j].method) < 0
            /\ (loader.sortUsing = "cmp" /\ c = "Left") =>
                MethodsOf(s) = <<"testA", "testB", "testC">>

C24_Witness ==
    \E k \in CallsOf("loadTestsFromTestCase") :
        /\ calls[k].cls = "Left" /\ loader.sortUsing = "cmp" /\ loader.dir = "own"
        /\ MethodsOf(calls[k].res.val) = <<"testA", "testB", "testC">>
        /\ k = 2

\* C25: getTestCaseNames lists exactly the names with the check prefix that
\* the class or an ancestor defines, each once, whatever the inheritance
\* shape.
C25_NamesOnce ==
    \A k \in CallsOf("getTestCaseNames") :
        /\ {calls[k].listed[i] : i \in DOMAIN calls[k].listed} = Selected(calls[k].cls)
        /\ Len(calls[k].listed) = Cardinality(Selected(calls[k].cls))

C25_Witness ==
    \E k \in CallsOf("getTestCaseNames") :
        /\ calls[k].cls = "Diamond" /\ loader.dir = "own" /\ loader.sortUsing = "none"
        /\ calls[k].listed = <<"testA", "testC", "testB">>

\* C26: two loads of one fixture by one loader give Suites with the same
\* unit ids in the same order, and neither the Suites nor any of their units
\* are the same instance.
C26_LoadTwice ==
    \A k, l \in CallsOf("loadTestsFromTestCase") :
        (k < l /\ calls[k].cls = calls[l].cls) =>
            /\ IdsOf(calls[k].res.val) = IdsOf(calls[l].res.val)
            /\ calls[k].res.val.name = calls[l].res.val.name
            /\ Oids(calls[k].res.val) \cap Oids(calls[l].res.val) = {}

C26_Witness ==
    /\ Len(calls) = 2
    /\ \A k \in DOMAIN calls :
        calls[k].op = "loadTestsFromTestCase" /\ calls[k].cls = "Diamond"
    /\ IdsOf(calls[2].res.val) = <<"Diamond.testA", "Diamond.testB", "Diamond.testC">>
    /\ Cardinality(Oids(calls[1].res.val) \cup Oids(calls[2].res.val)) = 8

\* C27: loadTestsFromNames returns one outer Suite whose i-th child is what
\* the i-th name resolves to, whose case count is the sum of the children's,
\* and in which a name listed twice has two children.
C27_PerNameResults ==
    \A k \in CallsOf("loadTestsFromNames") :
        LET names == calls[k].names
            s == calls[k].res.val
            alone == [i \in DOMAIN names |->
                        loadTestsFromName(loader, names[i], calls[k].module, FirstOid)]
        IN  IF \E i \in DOMAIN names : alone[i].exc # NoExc
            THEN calls[k].res.exc # NoExc /\ s = NoObj
            ELSE /\ calls[k].res.exc = NoExc /\ s.kind = "suite"
                 /\ s.oid \notin OidsBefore(k)
                 /\ Len(s.tests) = Len(names)
                 /\ \A i \in DOMAIN names : Shape(s.tests[i]) = Shape(alone[i].val)
                 /\ CountCases(s) = SumTo([i \in DOMAIN names |-> CountCases(alone[i].val)],
                                          Len(names))

C27_Witness ==
    \E k \in CallsOf("loadTestsFromNames") :
        /\ calls[k].names = <<<<"Left">>, <<"Left">>>>
        /\ loader.sortUsing = "reversed"
        /\ Len(calls[k].res.val.tests) = 2
        /\ CountCases(calls[k].res.val) = 6
        /\ Cardinality(Oids(calls[k].res.val)) = 9

\* The object the k-th call's (only) name leads to, or the lookup error.
TargetOf(k) ==
    IF calls[k].module # None THEN Walk(ModuleObj(calls[k].module), calls[k].names[1])
    ELSE Walk(ModuleObj(calls[k].names[1][1]), Tail(calls[k].names[1]))

\* The k-th call resolved the dotted name of one check of a TestCase class.
NamesOneCheck(k) ==
    /\ calls[k].op = "loadTestsFromName"
    /\ calls[k].names[1][1] \in ModuleNames \/ calls[k].module # None
    /\ TargetOf(k).exc = NoExc
    /\ TargetOf(k).val.kind = "method"
    /\ issubclass(TargetOf(k).val.cls, "TestCase")

\* C28: the dotted name of a single check resolves to a Suite of case count 1
\* whose only unit is bound to that check, with an id ending in its name.
C28_SingleUnitSuite ==
    \A k \in DOMAIN calls :
        NamesOneCheck(k) =>
            /\ calls[k].res.val.kind = "suite"
            /\ CountCases(calls[k].res.val) = 1
            /\ Len(calls[k].res.val.tests) = 1
            /\ calls[k].res.val.tests[1].method = Last(calls[k].names[1])

\* What the code gives for such a name: the unit itself, a new instance of
\* the class the name went through, not wrapped in anything.
C28_BareUnit ==
    \A k \in DOMAIN calls :
        NamesOneCheck(k) =>
            /\ calls[k].res.exc = NoExc
            /\ calls[k].res.val.kind = "unit"
            /\ calls[k].res.val.oid \notin OidsBefore(k)
            /\ CountCases(calls[k].res.val) = 1
            /\ calls[k].res.val.method = Last(calls[k].names[1])
            /\ UnitId(calls[k].res.val) =
                   TargetOf(k).val.cls \o "." \o Last(calls[k].names[1])

C28_Reached ==
    \E k \in DOMAIN calls :
        /\ NamesOneCheck(k)
        /\ calls[k].names[1] = <<"pkg", "mod", "Diamond", "testB">>
        /\ UnitId(calls[k].res.val) = "Diamond.testB"

HelpOptions == {"-h", "-H", "--help"}
KnownOptions == HelpOptions \cup {"-v", "--verbose", "-q", "--quiet", "-e", "--explain",
                                  "-r", "--raise"}

\* The option lists and the name lists of the command lines tried, and the
\* defaultTest arguments.
OptionLists == {<<>>, <<"-q">>, <<"-v">>, <<"-e">>, <<"-v", "-e">>, <<"-r">>,
                <<"-q", "-v">>, <<"--verbose", "-e", "--quiet">>,
                <<"-h">>, <<"-q", "--help">>, <<"-x">>, <<"-h", "-x">>}
ArgLists == {<<>>, <<<<"FixtureX">>>>, <<<<"FixtureX", "testA">>>>,
             <<<<"unitY">>, <<"FixtureX">>>>, <<<<"nosuch">>>>,
             <<<<"unitY">>, <<"FixtureX", "testB">>>>, <<<<"nosuch">>, <<"unitY">>>>,
             <<<<"answer">>>>}
DefaultTests == {None, "unitY"}

\* Mutant: once -q was seen a later -v changes nothing.
RECURSIVE ApplyOptions_quietSticks(_, _)
ApplyOptions_quietSticks(p, opts) ==
    IF opts = <<>> THEN p
    ELSE IF Head(opts) \in HelpOptions THEN [p EXCEPT !.phase = "exited", !.status = 2]
    ELSE ApplyOptions_quietSticks(
             [p EXCEPT !.verbosity = IF Head(opts) \in {"-q", "--quiet"} \/ @ = 0 THEN 0
                                     ELSE IF Head(opts) \in {"-v", "--verbose"} THEN 2
                                     ELSE @,
                       !.explain = IF Head(opts) \in {"-e", "--explain"} THEN TRUE ELSE @],
             Tail(opts))

\* for opt, value in options: the loop of parseArgs, which -h leaves by
\* usageExit.
RECURSIVE ApplyOptions(_, _)
ApplyOptions(p, opts) ==
    IF opts = <<>> THEN p
    ELSE IF Head(opts) \in HelpOptions THEN [p EXCEPT !.phase = "exited", !.status = 2]
    ELSE ApplyOptions(
             [p EXCEPT !.verbosity = IF Head(opts) \in {"-q", "--quiet"} THEN 0
                                     ELSE IF Head(opts) \in {"-v", "--verbose"} THEN 2
                                     ELSE @,
                       !.explain = IF Head(opts) \in {"-e", "--explain"} THEN TRUE ELSE @],
             Tail(opts))

\* self.testNames: the arguments, or the default name when there are none.
testNames(args, defaultTest) ==
    IF args # <<>> THEN args
    ELSE IF defaultTest # None THEN <<<<defaultTest>>>>
    ELSE <<>>

\* The loader call parseArgs or createTests makes for the names on the
\* command line (or the default name, or the whole module).
ProgramLoad(args, defaultTest, n) ==
    IF args = <<>> /\ defaultTest = None THEN loadTestsFromModule(loader, "main", n)
    ELSE loadTestsFromNames(loader, testNames(args, defaultTest), "main", n)

\* The program after parseArgs dealt with the loader's answer.
AfterLoad(p, r) ==
    IF r.exc # NoExc THEN [p EXCEPT !.phase = "raised", !.exc = r.exc]
    ELSE [p EXCEPT !.phase = "parsed", !.test = r.val]

\* The unit or Suite of the run that stands for a loaded object: the Suite
\* the program runs is the root, a Suite inside it the nested one.
RunItem(o) ==
    IF o.kind = "suite" THEN "S2" ELSE IF o.cls = "FixtureX" THEN "U1" ELSE "U2"

RunItems(o) == [i \in DOMAIN o.tests |-> RunItem(o.tests[i])]

\* _testMap of a Suite holding the items of seq.
MapOf(seq) ==
    [n \in Names |->
        IF \E i \in DOMAIN seq : DerivedName(seq[i]) = n
        THEN seq[CHOOSE i \in DOMAIN seq :
                    /\ DerivedName(seq[i]) = n
                    /\ \A j \in DOMAIN seq : DerivedName(seq[j]) = n => j <= i]
        ELSE None]

NestedItems(o) ==
    IF \E i \in DOMAIN o.tests : o.tests[i].kind = "suite" THEN <<"U1">> ELSE <<>>

\* sys.exit(not result.wasSuccessful()): the status a boolean exits with.
ExitStatus_zero(r) == 0
ExitStatus(r) == IF ~wasSuccessful(r) THEN 1 ELSE 0

\* TestProgram.__init__ up to the end of parseArgs: the options are read;
\* an unknown option or -h ends the program with status 2; otherwise the
\* tests are loaded, and an exception of the loader leaves the constructor.
ProgramStart(opts, args, defaultTest) ==
    LET known == \A i \in DOMAIN opts : opts[i] \in KnownOptions
        given == [NoProgram EXCEPT !.opts = opts, !.args = args,
                                   !.defaultTest = defaultTest]
        p == IF known THEN ApplyOptions([given EXCEPT !.phase = "options"], opts)
             ELSE [given EXCEPT !.phase = "exited", !.status = 2]
        r == ProgramLoad(args, defaultTest, nextOid)
    IN  /\ prog.phase = "none" /\ pc = "idle"
        /\ IF p.phase = "exited"
           THEN /\ prog' = p
                /\ UNCHANGED <<calls, nextOid, tests, testMap, adds>>
           ELSE /\ prog' = AfterLoad(p, r)
                /\ calls' = Append(calls, LoadCall("load", None,
                                                   testNames(args, defaultTest),
                                                   "main", r, <<>>))
                /\ nextOid' = r.next
                /\ tests' = [s \in Suites |->
                                IF r.exc # NoExc THEN <<>>
                                ELSE IF s = Root THEN RunItems(r.val)
                                ELSE NestedItems(r.val)]
                /\ testMap' = [s \in Suites |-> MapOf(tests'[s])]
                /\ adds' = Len(tests'["S1"]) + Len(tests'["S2"])
        /\ UNCHANGED <<loader, runVars>>

\* runTests: self.testRunner.run(self.test) begins.
ProgramRunTests ==
    /\ prog.phase = "parsed"
    /\ RunnerRun(prog.verbosity)

\* The run's last step, with the program's explain setting.
ProgramSummarize ==
    /\ prog.phase = "parsed"
    /\ Summarize(prog.explain)

\* runTests: run() has returned; self._cleanupAfterRunningTests()
ProgramCleanup ==
    /\ prog.phase = "parsed" /\ pc = "done"
    /\ prog' = [prog EXCEPT !.phase = "cleaned", !.cleaned = TRUE]
    /\ UNCHANGED <<loader, nextOid, calls, tests, testMap, adds, runVars>>

\* runTests: sys.exit(not result.wasSuccessful())
ProgramExit ==
    /\ prog.phase = "cleaned"
    /\ prog' = [prog EXCEPT !.phase = "exited", !.status = ExitStatus(result)]
    /\ UNCHANGED <<loader, nextOid, calls, tests, testMap, adds, runVars>>

NextProgram ==
    \/ \E opts \in OptionLists, args \in ArgLists, d \in DefaultTests :
           ProgramStart(opts, args, d)
    \/ ProgramRunTests
    \/ Stop
    \/ SuiteReturn
    \/ SuiteBreak
    \/ SuiteDescend
    \/ SuiteCallCase
    \/ StartTest
    \/ \E e \in Excs \cup {NoExc} : SetUp(e)
    \/ \E e \in Excs \cup {NoExc} : Test(e)
    \/ \E e \in Excs \cup {NoExc} : TearDown(e)
    \/ StopTest
    \/ EndTests
    \/ ProgramSummarize
    \/ ProgramCleanup
    \/ ProgramExit

SpecProgram == Init /\ [][NextProgram]_vars

\* ------------------------------------------------ properties of the program
\* C23 as stated: the program exits only once the Runner is done and the
\* cleanup hook has run, and then with status 0 exactly if the collector
\* reports success.
C23_ExitAfterRun ==
    prog.phase = "exited" =>
        /\ pc = "done" /\ prog.cleaned
        /\ prog.status = 0 <=> wasSuccessful(result)

\* C23: an exit with status 0 or 1 comes after the Runner is done and the
\* cleanup hook has run, with 0 exactly if the collector reports success
\* after summarizing; the one other exit is the usage exit with status 2,
\* taken before anything was loaded or run.
C23_ExitStatus ==
    /\ prog.phase = "exited" =>
        \/ /\ prog.status \in {0, 1}
           /\ pc = "done" /\ driver = "runner" /\ prog.cleaned
           /\ VerdictPrinted
           /\ prog.status = 0 <=> wasSuccessful(result)
        \/ /\ prog.status = 2
           /\ pc = "idle" /\ result = NoResult /\ ~prog.cleaned
           /\ calls = <<>> /\ started = <<>>
    /\ prog.phase # "exited" => prog.status = -1
    /\ prog.cleaned => pc = "done"

C23_Witness ==
    /\ prog.phase = "exited" /\ prog.status = 1 /\ prog.cleaned
    /\ pc = "done"
    /\ Len(result.failures) = 1 /\ result.testsRun = 2

\* What __import__, getattr and getTestForName raise for a name they do not
\* find.
LookupErrors == {"ImportError", "AttributeError", "KeyError"}

\* C30: when a name on the command line does not resolve, the lookup error
\* leaves loadTestsFromName, loadTestsFromNames and the program's
\* constructor; no Suite is made of the names that did resolve and the
\* Runner starts no unit.
C30_ResolutionFatal ==
    \A k \in DOMAIN calls :
        LET names == calls[k].names
            alone == [i \in DOMAIN names |->
                        loadTestsFromName(loader, names[i], "main", FirstOid)]
            bad == {i \in DOMAIN names : alone[i].exc # NoExc}
            first == CHOOSE i \in bad : \A j \in bad : i <= j
        IN  (bad # {} /\ alone[first].exc \in LookupErrors) =>
                /\ calls[k].res.exc = alone[first].exc
                /\ calls[k].res.val = NoObj
                /\ prog.phase = "raised" /\ prog.exc = alone[first].exc
                /\ prog.test = NoObj /\ prog.status = -1
                /\ \A s \in Suites : tests[s] = <<>>
                /\ pc = "idle" /\ result = NoResult /\ started = <<>> /\ runs = 0

C30_Witness ==
    /\ prog.phase = "raised" /\ prog.exc = "AttributeError"
    /\ calls[1].names = <<<<"unitY">>, <<"FixtureX", "testB">>>>
    /\ calls[1].res.val = NoObj
    /\ started = <<>>

\* The same at the loader: the three lookup errors leave loadTestsFromName
\* as they are, and loadTestsFromNames with them.
LookupErrorsPropagate ==
    /\ \A k \in CallsOf("loadTestsFromName") :
        /\ calls[k].names[1] = <<"nopkg", "mod">> => calls[k].res.exc = "ImportError"
        /\ calls[k].names[1] = <<"pkg", "nomod", "Left">> => calls[k].res.exc = "AttributeError"
        /\ calls[k].names[1] = <<"Left", "testD">> => calls[k].res.exc = "AttributeError"
        /\ calls[k].names[1] = <<"theSuite", "FixtureY">> => calls[k].res.exc = "KeyError"
        /\ calls[k].res.exc # NoExc => calls[k].res.val = NoObj
    /\ \A k \in CallsOf("loadTestsFromNames") :
        Occurs(calls[k].names, <<"nosuch">>) =>
            calls[k].res.exc = "AttributeError" /\ calls[k].res.val = NoObj

\* The -q and -v options of a command line, in the order given.
ModeOptions(opts) ==
    SelectSeq(opts, LAMBDA o : o \in {"-q", "--quiet", "-v", "--verbose"})

\* The TestCase classes module main binds, in the order dir() lists them.
FixturesOfMain ==
    SelectSeq(ModuleDir("main"), LAMBDA a : IsTestCaseClass(ModuleAttr("main", a)))

C31_WitnessModule ==
    /\ prog.phase = "parsed" /\ prog.args = <<>> /\ prog.defaultTest = None
    /\ prog.opts = <<"-q", "-v">> /\ prog.verbosity = 2
    /\ tests[Root] = <<"S2">> /\ tests["S2"] = <<"U1">>

\* ------------------------------------------------ a unit's documentation
\* TestCase._setupMetaData derives the description and the explanation of a
\* unit from the docstring of its fixture class and of its check method. A
\* docstring is None or a text; a text is its sequence of characters.
NoDoc == [given |-> FALSE, text |-> <<>>]
Doc(text) == [given |-> TRUE, text |-> text]

\* `doc or '\n'`: None and the empty text are false.
OrNewline(doc) == IF doc.given /\ doc.text # <<>> THEN doc.text ELSE <<"\n">>

\* str.splitlines(): the lines of a text, without their line ends; a line end
\* at the very end opens no further line.
RECURSIVE splitlines(_)
splitlines(text) ==
    IF text = <<>> THEN <<>>
    ELSE LET ends == {k \in 1..Len(text) : text[k] = "\n"}
         IN  IF ends = {} THEN <<text>>
             ELSE LET k == CHOOSE e \in ends : \A o \in ends : e <= o
                  IN  <<SubSeq(text, 1, k - 1)>>
                          \o splitlines(SubSeq(text, k + 1, Len(text)))

Whitespace == {" ", "\n"}

\* str.strip(): the text without the whitespace at its two ends.
strip(text) ==
    LET inked == {k \in 1..Len(text) : text[k] \notin Whitespace}
    IN  IF inked = {} THEN <<>>
        ELSE SubSeq(text, CHOOSE a \in inked : \A o \in inked : a <= o,
                          CHOOSE b \in inked : \A o \in inked : b >= o)

\* '\n'.join(lines)
RECURSIVE join(_)
join(lines) ==
    IF lines = <<>> THEN <<>>
    ELSE IF Len(lines) = 1 THEN lines[1]
    ELSE lines[1] \o <<"\n">> \o join(Tail(lines))

StripEach(lines) == [k \in 1..Len(lines) |-> strip(lines[k])]

\* The first line of a docstring, stripped (232, 242).
Description(doc) == strip(splitlines(OrNewline(doc))[1])

\* The rest of a docstring, each line stripped (233-238, 243-248).
Explanation(doc) ==
    LET lines == splitlines(OrNewline(doc))
    IN  IF Len(lines) > 1 THEN strip(join(StripEach(Tail(lines)))) ELSE <<>>

\* The rule of combination with the separator kept for two texts only.
Combine_commaWhenBoth(fixtureDescription, testDescription) ==
    IF fixtureDescription = <<>> THEN testDescription
    ELSE IF testDescription = <<>> THEN fixtureDescription
    ELSE fixtureDescription \o <<",", " ">> \o testDescription

\* Lines 254-257: the description of the unit.
Combine(fixtureDescription, testDescription) ==
    IF fixtureDescription = <<>> THEN testDescription
    ELSE fixtureDescription \o <<",", " ">> \o testDescription

\* Lines 259-270: the explanation of the unit.
CombineExplanations(fixtureExplanation, testExplanation) ==
    IF fixtureExplanation = <<>> THEN testExplanation
    ELSE join(<< <<"Fixture Explanation:">>, <<"--------------------">>,
                 fixtureExplanation, <<>>, <<"Test Explanation:">>,
                 <<"-----------------">>, testExplanation >>)

setupMetaData(fixtureDoc, testDoc) ==
    [description |-> Combine(Description(fixtureDoc), Description(testDoc)),
     explanation |-> CombineExplanations(Explanation(fixtureDoc),
                                         Explanation(testDoc))]

\* The docstrings tried: none, empty, blank, one line, one line in blanks, a
\* blank first line, two lines. `w` is the word the text is made of.
Docs(w) ==
    {NoDoc, Doc(<<>>), Doc(<<" ">>), Doc(<<w>>), Doc(<<" ", w, " ", "\n">>),
     Doc(<<"\n", w>>), Doc(<<w, "\n", " ", w, w, "\n">>)}

FixtureDocs == Docs("F")
TestDocs == Docs("t")
Descriptions == {<<>>, <<"d">>}

\* What a call made outside a run leaves alone: everything but its record.
probed == <<tests, testMap, pc, driver, result, stack, cur, upc, ok, pending,
            events, started, nStopTest, raises, adds, stopCalled, interrupted,
            target, outs, snap, tally, runs, prev, played, loadVars>>

\* TestCase(methodName): the constructor fixes the meta data (208).
Construct(fixtureDoc, testDoc) ==
    /\ pc = "idle"
    /\ probe.op = "none"
    /\ probe' = [op |-> "TestCase", fixtureDoc |-> fixtureDoc, testDoc |-> testDoc,
                 description |-> setupMetaData(fixtureDoc, testDoc).description,
                 explanation |-> setupMetaData(fixtureDoc, testDoc).explanation,
                 set |-> FALSE, descr |-> <<>>]
    /\ UNCHANGED probed

\* setDescription(descr) (289-290)
SetDescription(descr) ==
    /\ probe.op = "TestCase" /\ ~probe.set
    /\ probe' = [probe EXCEPT !.description = descr, !.set = TRUE, !.descr = descr]
    /\ UNCHANGED probed

NextMeta ==
    \/ \E fixtureDoc \in FixtureDocs, testDoc \in TestDocs :
           Construct(fixtureDoc, testDoc)
    \/ \E descr \in Descriptions : SetDescription(descr)

SpecMeta == Init /\ [][NextMeta]_vars

HasLetter(text, w) == \E k \in 1..Len(text) : text[k] = w
Commas(text) == Cardinality({k \in 1..Len(text) : text[k] = ","})

\* The first stripped line of a docstring, read off the text itself: the
\* characters before the first line end that are no blanks at the two ends.
FirstWords(doc, w) ==
    IF ~doc.given \/ doc.text = <<>> THEN <<>>
    ELSE IF doc.text[1] = "\n" \/ doc.text = <<" ">> THEN <<>>
    ELSE <<w>>

\* C32 as stated: the two first lines are joined, fixture text first, with a
\* comma only when both are non-empty; when exactly one is empty the
\* description is the other one with no comma; when both are empty it is
\* empty.
C32_CommaOnlyWhenBoth ==
    (probe.op = "TestCase" /\ ~probe.set) =>
        LET f == FirstWords(probe.fixtureDoc, "F")
            t == FirstWords(probe.testDoc, "t")
        IN  /\ (f # <<>> /\ t # <<>>) => probe.description = f \o <<",", " ">> \o t
            /\ (f = <<>> /\ t # <<>>) => probe.description = t
            /\ (f # <<>> /\ t = <<>>) => probe.description = f
            /\ (f = <<>> /\ t = <<>>) => probe.description = <<>>

\* C32, amended: the description of a newly constructed unit is the check's
\* first line alone when the fixture's first line is empty, and otherwise
\* the fixture's first line, a comma and a space, and the check's first line,
\* whether or not the latter is empty. So an empty fixture line gives no
\* comma, two empty lines give the empty description, and a fixture line
\* with an empty check line gives the fixture line with ", " at its end.
\* The description stays as constructed until setDescription replaces it.
C32_Description ==
    probe.op = "TestCase" =>
        LET f == FirstWords(probe.fixtureDoc, "F")
            t == FirstWords(probe.testDoc, "t")
        IN  IF probe.set THEN probe.description = probe.descr
            ELSE /\ f = <<>> => probe.description = t /\ Commas(probe.description) = 0
                 /\ f # <<>> =>
                        /\ probe.description = f \o <<",", " ">> \o t
                        /\ Commas(probe.description) = 1
                 /\ (f = <<>> /\ t = <<>>) => probe.description = <<>>
                 /\ (HasLetter(probe.description, "F") /\ HasLetter(probe.description, "t"))
                        => probe.description[1] = "F"

\* A fixture with a docstring whose check has none: the comma is there.
C32_Witness ==
    /\ probe.op = "TestCase" /\ ~probe.set
    /\ probe.fixtureDoc = Doc(<<" ", "F", " ", "\n">>)
    /\ probe.testDoc = NoDoc
    /\ probe.description = <<"F", ",", " ">>

\* ------------------------------------------------- the same tree run twice
\* The Runner drives one tree twice; what each unit's setUp, check and
\* tearDown did is written down per unit, call by call, and kept for the run
\* before as well, next to what that run's collector held.
NoRun ==
    [started |-> <<>>, failures |-> <<>>, errors |-> <<>>, testsRun |-> 0,
     shouldStop |-> 0, now |-> [u \in Cases |-> <<>>]]

PlayedStopTest ==
    /\ StopTestStep
    /\ played' = [played EXCEPT !.now[cur] = Append(@, outs)]

\* Mutant: the second run is handed the collector of the first.
RunnerReplay_sameCollector(v) ==
    /\ pc = "done" /\ runs < MaxRuns
    /\ result' = beginTests(result)
    /\ played' = [now |-> [u \in Cases |-> <<>>],
                  before |-> [started |-> started, failures |-> result.failures,
                              errors |-> result.errors, testsRun |-> result.testsRun,
                              shouldStop |-> result.shouldStop, now |-> played.now]]
    /\ runs' = runs + 1
    /\ stack' = <<[suite |-> Root, i |-> 1]>>
    /\ pc' = "running"
    /\ events' = <<>> /\ started' = <<>> /\ nStopTest' = 0 /\ raises' = 0
    /\ stopCalled' = FALSE /\ interrupted' = FALSE
    /\ outs' = NoOuts
    /\ snap' = [testsRun |-> 0, failures |-> 0, errors |-> 0, shouldStop |-> 0]
    /\ UNCHANGED <<tests, testMap, driver, cur, upc, ok, pending, adds, target, tally,
                   prev, probe, loadVars>>

\* TextTestRunner.run(test) called again on the same tree.
RunnerReplay(v) ==
    /\ pc = "done" /\ runs < MaxRuns
    /\ result' = beginTests(NewResult("_TextTestResult", v))
    /\ played' = [now |-> [u \in Cases |-> <<>>],
                  before |-> [started |-> started, failures |-> result.failures,
                              errors |-> result.errors, testsRun |-> result.testsRun,
                              shouldStop |-> result.shouldStop, now |-> played.now]]
    /\ runs' = runs + 1
    /\ stack' = <<[suite |-> Root, i |-> 1]>>
    /\ pc' = "running"
    /\ events' = <<>> /\ started' = <<>> /\ nStopTest' = 0 /\ raises' = 0
    /\ stopCalled' = FALSE /\ interrupted' = FALSE
    /\ outs' = NoOuts
    /\ snap' = [testsRun |-> 0, failures |-> 0, errors |-> 0, shouldStop |-> 0]
    /\ UNCHANGED <<tests, testMap, driver, cur, upc, ok, pending, adds, target, tally,
                   prev, probe, loadVars>>

NextReplay ==
    \/ RunnerRun(DefaultVerbosity)
    \/ RunnerReplay(DefaultVerbosity)
    \/ Stop
    \/ SuiteReturn
    \/ SuiteBreak
    \/ SuiteDescend
    \/ SuiteCallCase
    \/ StartTest
    \/ \E e \in Excs \cup {NoExc} : SetUp(e)
    \/ \E e \in Excs \cup {NoExc} : Test(e)
    \/ \E e \in Excs \cup {NoExc} : TearDown(e)
    \/ PlayedStopTest
    \/ EndTests
    \/ \E explain \in BOOLEAN : Summarize(explain)

SpecReplay == InitRerun /\ [][NextReplay]_vars

\* C33: two runs of the same tree in which every unit's setUp, check and
\* tearDown ended the same way, call by call, leave the same sequence of
\* startTest calls, the same failure and error sequences and the same run
\* count.
C33_Deterministic ==
    (runs >= 2 /\ TraversalReturned /\ played.now = played.before.now) =>
        /\ started = played.before.started
        /\ result.failures = played.before.failures
        /\ result.errors = played.before.errors
        /\ result.testsRun = played.before.testsRun

\* Both runs had a setUp that raised and a check that failed, and were equal.
C33_Witness ==
    /\ runs >= 2 /\ TraversalReturned /\ played.now = played.before.now
    /\ started = <<"U1", "U2">>
    /\ Len(result.failures) = 1 /\ Len(result.errors) = 1
    /\ played.now["U1"][1].setUp # NoExc

\* -------------------------------------------------- failUnlessRaises(E, f)
\* What leaves failUnlessRaises(excClass, callableObj) when the callable
\* ended with `raised` (NoExc: it returned): `except excClass: return`
\* swallows an exception of that class, the else branch raises the failure
\* exception when nothing was raised, anything else passes through.
failUnlessRaises_catchesAll(excClass, raised) ==
    IF raised = NoExc THEN failureException ELSE NoExc

failUnlessRaises(excClass, raised) ==
    IF raised = excClass THEN NoExc
    ELSE IF raised = NoExc THEN failureException
    ELSE raised

\* A check whose body is failUnlessRaises(excClass, f).
RaisesTest(excClass, raised) ==
    /\ Check(failUnlessRaises(excClass, raised))
    /\ probe' = [op |-> "failUnlessRaises", excClass |-> excClass, raised |-> raised]
    /\ UNCHANGED <<tally, runs, prev, played, loadVars>>

NextAssert ==
    \/ \E s \in Suites, t \in Suites \cup Cases : adds < MaxSmallAdds /\ AddTest(s, t)
    \/ MakeResult
    \/ RunSuite
    \/ \E u \in Cases : RunCase(u)
    \/ \E v \in Verbosities : RunnerRun(v)
    \/ SuiteReturn
    \/ SuiteBreak
    \/ SuiteDescend
    \/ SuiteCallCase
    \/ StartTest
    \/ SetUp(NoExc)
    \/ \E excClass \in Excs, raised \in Excs \cup {NoExc} : RaisesTest(excClass, raised)
    \/ TearDown(NoExc)
    \/ StopTest
    \/ EndTests
    \/ \E explain \in BOOLEAN : Summarize(explain)

SpecAssert == Init /\ [][NextAssert]_vars

\* The unit whose call has just ended had failUnlessRaises as its check.
RaisesChecked == RunComplete /\ probe.op = "failUnlessRaises"
Success == NewFailures = <<>> /\ NewErrors = <<>> /\ Count(events, "addSuccess") = 1
FailureOf(e) ==
    NewFailures = <<<<Unit, e>>>> /\ NewErrors = <<>> /\ ~Occurs(events, "addSuccess")
ErrorOf(e) ==
    NewErrors = <<<<Unit, e>>>> /\ NewFailures = <<>> /\ ~Occurs(events, "addSuccess")

C34_WitnessError ==
    /\ RaisesChecked
    /\ probe.excClass = "ValueError" /\ probe.raised = "KeyboardInterrupt"
    /\ ErrorOf("KeyboardInterrupt")

C34_WitnessSuccess ==
    /\ RaisesChecked
    /\ probe.excClass = failureException /\ probe.raised = failureException
    /\ Success

C35_WitnessEmpty ==
    /\ TraversalReturned /\ result.shouldStop = 0
    /\ tests[Root] = <<"S2">> /\ tests["S2"] = <<>>
    /\ result.testsRun = 0

\* C36: addSuccess is called for a unit run exactly when that run appended no
\* failure and no error record; and in every state of the collector the
\* failure sequence is no longer than the run count, and the two sequences
\* together hold at most twice as many records as the run count.
C36_SuccessAndBounds ==
    /\ RunComplete =>
           (Occurs(events, "addSuccess") <=> (NewFailures = <<>> /\ NewErrors = <<>>))
    /\ Count(events, "addSuccess") <= 1
    /\ Len(result.failures) <= result.testsRun
    /\ Len(result.failures) + Len(result.errors) <= 2 * result.testsRun

\* One unit ran, failed its check and raised in tearDown: two records.
C36_Witness ==
    /\ RunComplete
    /\ result.testsRun = 1
    /\ Len(result.failures) = 1 /\ Len(result.errors) = 1
    /\ Len(result.failures) + Len(result.errors) = 2 * result.testsRun
    /\ ~Occurs(events, "addSuccess")

C36_WitnessSuccess ==
    /\ RunComplete /\ Occurs(events, "addSuccess")
    /\ result.testsRun = 2 /\ Len(result.errors) = 1

\* a is b with some elements left out.
RECURSIVE IsSubsequence(_, _)
IsSubsequence(a, b) ==
    IF a = <<>> THEN TRUE
    ELSE IF b = <<>> THEN FALSE
    ELSE IF Head(a) = Head(b) THEN IsSubsequence(Tail(a), Tail(b))
    ELSE IsSubsequence(a, Tail(b))

UnitsOf(records) == [k \in 1..Len(records) |-> records[k][1]]
Twice(seq) == [k \in 1..(2 * Len(seq)) |-> seq[(k + 1) \div 2]]

\* One step of the program on a collector that exists before and after it.
CollectorGrows ==
    (result.cls # None /\ result'.cls # None) =>
        /\ result'.shouldStop >= result.shouldStop
        /\ result'.testsRun >= result.testsRun
        /\ IsPrefix(result.failures, result'.failures)
        /\ IsPrefix(result.errors, result'.errors)

\* The records name the units in the order the units were started: a unit
\* has at most one failure record and at most two error records.
RecordsInUnitOrder ==
    /\ IsSubsequence(UnitsOf(result.failures), started)
    /\ IsSubsequence(UnitsOf(result.errors), Twice(started))

\* C37: no step of the collector, a unit or a Suite clears the stop flag once
\* it is set, decreases the run count, or removes or reorders a record of
\* the failure or error sequence (each step leaves the old sequence as a
\* prefix of the new one), and each sequence lists its records in the order
\* the units produced them.
C37_OnlyGrows == [][CollectorGrows]_vars /\ []RecordsInUnitOrder

\* The flag is set, two units have run and each has left a record.
C37_Witness ==
    /\ result.shouldStop = 1
    /\ result.testsRun = 2
    /\ UnitsOf(result.errors) = <<"U1", "U2">>
    /\ pc = "returned"

\* A phase of the unit last started ended with a KeyboardInterrupt.
InterruptIn(phase) == started # <<>> /\ outs[phase] = "KeyboardInterrupt"

\* C38: with the text collector an interrupt raised in setUp, in the check or
\* in tearDown sets the stop flag; with the base collector addError leaves
\* the flag alone whatever the exception, an interrupt included, so there the
\* flag is set only by an explicit stop() call. No collector has its flag
\* set without an interrupt or a stop() call.
C38_InterruptStop ==
    /\ result.cls = "_TextTestResult" =>
           /\ \A phase \in {"setUp", "test", "tearDown"} :
                  InterruptIn(phase) => result.shouldStop = 1
           /\ result.shouldStop = 1 => (stopCalled \/ interrupted)
    /\ result.cls = "TestResult" =>
           (result.shouldStop = 1 <=> stopCalled)

\* The text collector: tearDown was interrupted, nobody called stop().
C38_Witness ==
    /\ result.cls = "_TextTestResult"
    /\ outs.setUp = NoExc /\ outs.test = NoExc /\ InterruptIn("tearDown")
    /\ ~stopCalled
    /\ result.shouldStop = 1
    /\ RunComplete

C38_WitnessSetUp ==
    /\ result.cls = "_TextTestResult"
    /\ InterruptIn("setUp") /\ ~stopCalled /\ result.shouldStop = 1

\* The base collector: an interrupt was recorded as an error, the flag is clear.
C38_WitnessBase ==
    /\ result.cls = "TestResult"
    /\ InterruptIn("setUp") /\ RunComplete
    /\ result.errors = <<<<Unit, "KeyboardInterrupt">>>>
    /\ result.shouldStop = 0

\* A step of a Suite traversal that is between two units with the stop flag
\* set: it starts no unit and touches neither the count nor the records.
StoppedSuiteIdles ==
    (target = Root /\ upc = "none" /\ result.shouldStop = 1) =>
        /\ started' = started
        /\ cur' = None
        /\ result'.testsRun = result.testsRun
        /\ result'.failures = result.failures
        /\ result'.errors = result.errors

\* A unit called directly is started and counted whatever the flag says.
CalledUnitStarts ==
    (target \in Cases /\ upc = "call") =>
        /\ started' = Append(started, target)
        /\ result'.testsRun = result.testsRun + 1
        /\ upc' = "setUp"

\* The direct call of a unit has ended: its whole lifecycle ran.
DirectUnitRan ==
    (target \in Cases /\ TargetReturned) =>
        /\ started = <<target>>
        /\ result.testsRun = 1
        /\ Head(events) = "startTest" /\ Last(events) = "stopTest"
        /\ Occurs(events, "setUp")
        /\ outs.setUp = NoExc => (Occurs(events, "test") /\ Occurs(events, "tearDown"))
        /\ (outs.setUp = NoExc /\ outs.test = NoExc /\ outs.tearDown = NoExc) =>
               Occurs(events, "addSuccess")

\* C40: only the Suite traversal consults the stop flag. A Suite run against
\* a collector whose flag is set starts no unit and leaves the run count and
\* both record sequences as they were; a unit run directly against such a
\* collector still runs its whole lifecycle and is counted.
C40_StopOnlySuite ==
    /\ [][StoppedSuiteIdles /\ CalledUnitStarts]_vars
    /\ [](DirectUnitRan /\ (target = Root /\ started # <<>> => snap.shouldStop = 0))

\* A unit called on a collector whose flag was set before the call: it ran
\* setUp, check and tearDown and was recorded as a success.
C40_Witness ==
    /\ target = "U1" /\ TargetReturned
    /\ snap.shouldStop = 1 /\ result.shouldStop = 1
    /\ result.testsRun = 1
    /\ events = <<"startTest", "setUp", "test", "tearDown", "addSuccess", "stopTest">>

\* A Suite of two units called on a collector whose flag was set before.
C40_WitnessSuite ==
    /\ target = Root /\ pc = "returned"
    /\ Len(tests[Root]) = 2
    /\ result.shouldStop = 1
    /\ started = <<>> /\ result.testsRun = 0
    /\ result.failures = <<>> /\ result.errors = <<>>

\* ------------------------------------------------------ the name index
\* Suites are built, asked for a child by name, and run with the base
\* collector, which its owner or a unit may ask to stop; the units' fixtures
\* are sound and their checks pass or fail.
GetTestForName(s, name) ==
    /\ pc = "idle"
    /\ probe.op = "none"
    /\ probe' = [op |-> "getTestForName", suite |-> s, name |-> name,
                 children |-> tests[s], res |-> getTestForName(s, name)]
    /\ UNCHANGED probed

NextLookup ==
    \/ \E s \in Suites, t \in Suites \cup Cases : adds < MaxSmallAdds /\ AddTest(s, t)
    \/ \E s \in Suites, name \in Names : GetTestForName(s, name)
    \/ MakeResult
    \/ Stop
    \/ RunSuite
    \/ SuiteReturn
    \/ SuiteBreak
    \/ SuiteDescend
    \/ SuiteCallCase
    \/ StartTest
    \/ SetUp(NoExc)
    \/ \E e \in {NoExc, failureException} : Test(e)
    \/ TearDown(NoExc)
    \/ StopTest

SpecLookup == Init /\ [][NextLookup]_vars

Keys(s) == {n \in Names : testMap[s][n] # None}
Children(s) == {tests[s][i] : i \in DOMAIN tests[s]}
Named(children, name) == {i \in DOMAIN children : DerivedName(children[i]) = name}
LastNamed(children, name) ==
    children[CHOOSE i \in Named(children, name) : \A j \in Named(children, name) : j <= i]

\* What holds of the index of every Suite, and of a lookup that was made.
IndexSound ==
    /\ \A s \in Suites :
           /\ \A n \in Keys(s) : testMap[s][n] \in Children(s)
           /\ Cardinality(Keys(s)) <= Len(tests[s])
           /\ \A n \in Names :
                  IF Named(tests[s], n) = {} THEN testMap[s][n] = None
                  ELSE testMap[s][n] = LastNamed(tests[s], n)
    /\ (TraversalReturned /\ result.shouldStop = 0) =>
           /\ started = Flatten(Root)
           /\ \A i \in DOMAIN tests[Root] :
                  tests[Root][i] \in Cases => Occurs(started, tests[Root][i])
    /\ probe.op = "getTestForName" =>
           IF Named(probe.children, probe.name) = {}
           THEN probe.res = "KeyError"
           ELSE probe.res = LastNamed(probe.children, probe.name)

\* The step that looks a name up changes no Suite.
LookupLeavesSuite ==
    (probe.op = "none" /\ probe'.op = "getTestForName") =>
        (tests' = tests /\ testMap' = testMap)

\* C39: every value of a Suite's name index is one of its children and the
\* index has at most as many keys as the Suite has children; of two children
\* with the same derived name the index holds the one added last, while both
\* stay in the child sequence and both are run; getTestForName on a name
\* that was never indexed fails with an error and leaves the Suite as it was.
C39_NameIndex == []IndexSound /\ [][LookupLeavesSuite]_vars

\* Two units with the same check name in the root: the index holds the
\* second, both have run, and a lookup of a name never indexed has failed.
C39_Witness ==
    /\ tests[Root] = <<"U1", "U2">>
    /\ testMap[Root]["testA"] = "U2"
    /\ Cardinality(Keys(Root)) = 1
    /\ probe.op = "getTestForName" /\ probe.suite = Root /\ probe.name = "testB"
    /\ probe.res = "KeyError" /\ probe.children = <<"U1", "U2">>
    /\ pc = "returned" /\ started = <<"U1", "U2">>

C39_WitnessFound ==
    /\ probe.op = "getTestForName" /\ probe.suite = Root /\ probe.name = "testA"
    /\ probe.children = <<"U1", "U2">> /\ probe.res = "U2"

====
